---- MODULE Spec2Model ----
(***************************************************************************)
(* Daily post lifecycle of the anime birthday bot: the persisted state of  *)
(* one calendar date (src/src/state.js), the publish attempt              *)
(* (postBirthdayTweet / postSingleBirthday) and the preparation run        *)
(* (preparePostsForToday).                                                 *)
(*                                                                         *)
(* JS array indexes are 0-based; the sequences below are 1-based, so the   *)
(* post of index i is posts[i + 1].  A JS null is NoText for a text field  *)
(* and NoValue for a numeric field.                                        *)
(***************************************************************************)
EXTENDS Integers, Sequences, FiniteSets, TLC

VARIABLES
    store,        \* posts-<today>.json: [exists, posts]
    readOk,       \* fs.readFile of the state file succeeds
    writeOk,      \* fs.writeFile of the state file succeeds
    clock,        \* new Date(): the next time stamp
    last,         \* the last call of an exported function of state.js
    botMode,      \* the long-running process: "down", "scheduler" or "now"
    prepDue,      \* the daily-prep job of scheduleDailyPrep is due
    todaysPosts,  \* index.js: let todaysPosts
    lastPrep,     \* the branch the last preparePostsForToday of the process took
    jobs,         \* node-schedule jobs registered by schedulePosts
    nowNext,      \* the loop variable i of prepareAndPostAll
    attempts,     \* publish attempts in flight
    files,        \* image files in TEMP_DIR
    starts,       \* how often the long-running process has been started
    manualRuns,   \* how many manual runs (TRIGGER_POST_INDEX, post-now) were started
    tweets        \* per slot, the posts the posting service has accepted

----------------------------------------------------------------------------
(* Bounds of the model *)

MaxPosts == 2       \* longest prepared list handed to initializeTodaysState
MaxClock == 3       \* time stamps handed out to calls of state.js
MaxStarts == 2      \* starts of the long-running process in the day
MaxManual == 1      \* manual runs in the day
MaxTweets == 2      \* posts the posting service accepts for one slot
MaxCandidates == 2  \* candidates a list provider of images answers with
MaxLabels == 2      \* descriptions in one answer of the Vision API
MaxListed == 2      \* characters in one list the catalog answers with
MaxRequests == 10    \* requests counted in one call of searchCharacter
MaxCards == 7       \* character cards on the page of the day
MaxDocPosts == 2    \* posts of a state handed to a store
MaxWrites == 2      \* writes of the state file one process makes

----------------------------------------------------------------------------
(* Values *)

NoText == "null"
NoValue == 0

Errors == {"E403"}
TweetIds == {1, 2}

\* JS truthiness of a text value: null and the empty string are falsy
Truthy(v) == v \notin {NoText, ""}

\* POST_TIMES of scheduler.js
POST_TIMES ==
    << [hour |-> 9, minute |-> 0], [hour |-> 12, minute |-> 0],
       [hour |-> 15, minute |-> 0], [hour |-> 18, minute |-> 0],
       [hour |-> 21, minute |-> 0] >>

\* n.toString().padStart(2, '0')
PadStart2(n) == IF n < 10 THEN "0" \o ToString(n) ELSE ToString(n)

\* formatTime(postTimes[index]); postTimes[index] is undefined past the table
formatTime(postTimes, index) ==
    IF index + 1 \in 1..Len(postTimes)
    THEN PadStart2(postTimes[index + 1].hour) \o ":" \o PadStart2(postTimes[index + 1].minute)
    ELSE "N/A"

\* https://twitter.com/i/status/<id>
TweetUrl(id) == "https://twitter.com/i/status/" \o ToString(id)

----------------------------------------------------------------------------
(* state.js *)

NoState == [exists |-> FALSE, posts |-> <<>>]

\* loadState: the parsed file, or null when the file is missing or when
\* reading or parsing it fails
loadState(st, rOk) == IF st.exists /\ rOk THEN st ELSE NoState

\* state.posts[index] is defined
HasPost(state, index) == index + 1 \in 1..Len(state.posts)

isPostAlreadySent(state, index) ==
    IF ~state.exists \/ ~HasPost(state, index)
    THEN FALSE
    ELSE state.posts[index + 1].status = "posted"

\* markPostAsSent / markPostAsFailed reach saveState
MarkWrites(state, index) == state.exists /\ HasPost(state, index)

\* a faulty markPostAsSent that does not record the url
markPostAsSent_noUrl(state, index, tweetId, tweetUrl, now) ==
    IF ~MarkWrites(state, index)
    THEN state
    ELSE [state EXCEPT !.posts[index + 1] =
            [@ EXCEPT !.status = "posted", !.postedAt = now, !.tweetId = tweetId]]

markPostAsSent(state, index, tweetId, tweetUrl, now) ==
    IF ~MarkWrites(state, index)
    THEN state
    ELSE [state EXCEPT !.posts[index + 1] =
            [@ EXCEPT !.status = "posted", !.postedAt = now,
                      !.tweetId = tweetId, !.tweetUrl = tweetUrl]]

\* a faulty markPostAsFailed that also resets the scheduled time
markPostAsFailed_reset(state, index, error, now) ==
    IF ~MarkWrites(state, index)
    THEN state
    ELSE [state EXCEPT !.posts[index + 1] =
            [@ EXCEPT !.status = "error", !.error = error, !.lastAttempt = now,
                      !.scheduledTime = "N/A"]]

markPostAsFailed(state, index, error, now) ==
    IF ~MarkWrites(state, index)
    THEN state
    ELSE [state EXCEPT !.posts[index + 1] =
            [@ EXCEPT !.status = "error", !.error = error, !.lastAttempt = now]]

\* a faulty canRecoverFromState, with some() in place of every()
canRecoverFromState_some(state) ==
    IF ~state.exists \/ Len(state.posts) = 0
    THEN FALSE
    ELSE \E k \in 1..Len(state.posts) : Truthy(state.posts[k].acdbId)

canRecoverFromState(state) ==
    IF ~state.exists \/ Len(state.posts) = 0
    THEN FALSE
    ELSE \A k \in 1..Len(state.posts) : Truthy(state.posts[k].acdbId)

\* a post of a fresh state (initializeTodaysState, the posts.map callback)
NewPost(post, index) ==
    [index |-> index, acdbId |-> post.acdbId, character |-> post.name,
     series |-> post.series, scheduledTime |-> formatTime(POST_TIMES, index),
     status |-> "pending", postedAt |-> NoValue, tweetId |-> NoValue,
     tweetUrl |-> NoText, error |-> NoText, lastAttempt |-> NoValue]

\* existingState.posts.find(p => p.index === index && p.character === name):
\* the position of the first match, 0 when there is none
FindExisting(existingState, index, name) ==
    LET hits == {k \in 1..Len(existingState.posts) :
                    /\ existingState.posts[k].index = index
                    /\ existingState.posts[k].character = name}
    IN IF hits = {} THEN 0 ELSE CHOOSE k \in hits : \A j \in hits : k <= j

\* the posts.map callback of mergeState
MergePost(existingState, post, index) ==
    LET k == FindExisting(existingState, index, post.name)
        found == k # 0
        existingPost == existingState.posts[k]
    IN IF found /\ existingPost.status = "posted"
       THEN existingPost
       ELSE [index |-> index,
             acdbId |-> IF post.acdbId # NoText THEN post.acdbId
                        ELSE IF found THEN existingPost.acdbId ELSE NoText,
             character |-> post.name,
             series |-> post.series,
             scheduledTime |-> formatTime(POST_TIMES, index),
             status |-> IF found THEN existingPost.status ELSE "pending",
             postedAt |-> IF found THEN existingPost.postedAt ELSE NoValue,
             tweetId |-> IF found THEN existingPost.tweetId ELSE NoValue,
             tweetUrl |-> IF found THEN existingPost.tweetUrl ELSE NoText,
             error |-> NoText,
             lastAttempt |-> NoValue]

mergeState(existingState, posts) ==
    [existingState EXCEPT
        !.posts = [k \in 1..Len(posts) |-> MergePost(existingState, posts[k], k - 1)]]

\* the state initializeTodaysState hands to saveState
initializeTodaysState(existingState, posts) ==
    IF existingState.exists
    THEN mergeState(existingState, posts)
    ELSE [exists |-> TRUE, posts |-> [k \in 1..Len(posts) |-> NewPost(posts[k], k - 1)]]

----------------------------------------------------------------------------
(* The exported functions of state.js, called in any order *)

\* prepared posts: the acdbId, character.name and character.series of an
\* entry of the list preparePostsWithImages returns
PreparedPosts ==
    { [acdbId |-> "101", name |-> "A", series |-> "S"],
      [acdbId |-> NoText, name |-> "A", series |-> "T"],
      [acdbId |-> "", name |-> "B", series |-> "S"] }

PreparedLists == UNION {[1..n -> PreparedPosts] : n \in 0..MaxPosts}

NoCall == [op |-> "none", index |-> 0, result |-> FALSE]

Idle == [pc |-> "idle", slot |-> 0, hasIndex |-> FALSE, index |-> 0,
         imagePath |-> NoText, via |-> "none", readFailed |-> FALSE, tweetId |-> NoValue,
         error |-> NoText]

AttemptIds == {1, 2}

Slots == 0..1

envVars == <<readOk, writeOk>>
procVars == <<botMode, prepDue, todaysPosts, lastPrep, jobs, nowNext,
              attempts, files, starts, manualRuns, tweets>>
vars == <<store, readOk, writeOk, clock, last, botMode, prepDue, todaysPosts,
          lastPrep, jobs, nowNext, attempts, files, starts, manualRuns, tweets>>

Init ==
    /\ store = NoState
    /\ readOk = TRUE
    /\ writeOk = TRUE
    /\ clock = 1
    /\ last = NoCall
    /\ botMode = "down"
    /\ prepDue = FALSE
    /\ todaysPosts = <<>>
    /\ lastPrep = "none"
    /\ jobs = {}
    /\ nowNext = 0
    /\ attempts = [a \in AttemptIds |-> Idle]
    /\ files = {}
    /\ starts = 0
    /\ manualRuns = 0
    /\ tweets = [s \in Slots |-> [checked |-> 0, unchecked |-> 0]]

ApiInitialize ==
    \E posts \in PreparedLists :
        /\ store' = initializeTodaysState(loadState(store, readOk), posts)
        /\ last' = [op |-> "initializeTodaysState", index |-> 0, result |-> store.exists]
        /\ UNCHANGED <<clock, envVars, procVars>>

ApiMarkSent ==
    \E index \in -1..MaxPosts, id \in TweetIds :
        /\ clock < MaxClock
        /\ store' = markPostAsSent(loadState(store, readOk), index, id, TweetUrl(id), clock)
        /\ clock' = clock + 1
        /\ last' = [op |-> "markPostAsSent", index |-> index, result |-> FALSE]
        /\ UNCHANGED <<envVars, procVars>>

ApiMarkFailed ==
    \E index \in -1..MaxPosts, error \in Errors :
        /\ clock < MaxClock
        /\ store' = markPostAsFailed(loadState(store, readOk), index, error, clock)
        /\ clock' = clock + 1
        /\ last' = [op |-> "markPostAsFailed", index |-> index, result |-> FALSE]
        /\ UNCHANGED <<envVars, procVars>>

ApiCanRecover ==
    /\ last' = [op |-> "canRecoverFromState", index |-> 0,
                result |-> canRecoverFromState(loadState(store, readOk))]
    /\ UNCHANGED <<store, clock, envVars, procVars>>

NextApi == ApiInitialize \/ ApiMarkSent \/ ApiMarkFailed \/ ApiCanRecover

SpecApi == Init /\ [][NextApi]_vars

----------------------------------------------------------------------------
(* The day and its characters *)

\* the birthday list of the day, most favorites first (getTodaysBirthdays)
Birthdays ==
    << [id |-> "101", name |-> "A", series |-> "S"],
       [id |-> "102", name |-> "B", series |-> "T"] >>

\* the image sources of preparePostsWithImages that the model tells apart
Providers == {"anilist", "acdb"}

\* per character of a preparation run: the source that gave a valid image,
\* or null when none did; only the first character has a second source
ImageChoices ==
    {c \in [1..Len(Birthdays) -> Providers \cup {NoText}] :
        \A k \in 2..Len(Birthdays) : c[k] # "acdb"}

\* path.join(TEMP_DIR, `${sanitizeFilename(char.name)}_<source>.jpg`)
ImageFile(name, provider) == name \o "_" \o provider \o ".jpg"

\* clock value at which PREP_TIME (8:30) is reached; the day starts at 1
PrepClock == 2

\* clock value at which the time of POST_TIMES[slot] is reached
SlotClock(slot) == PrepClock + 1 + slot

LastClock == SlotClock(Len(Birthdays) - 1)

\* getCharacterDetailsById: the character page of an acdbId
Details(acdbId) ==
    CHOOSE c \in {Birthdays[k] : k \in 1..Len(Birthdays)} : c.id = acdbId

----------------------------------------------------------------------------
(* index.js: preparation *)

Placeholder(acdbId, p) ==
    [acdbId |-> acdbId, name |-> p.character, series |-> p.series, imagePath |-> NoText]

\* a faulty recoverPostsFromState: a posted slot is prepared again like a pending one
recoverPostsFromState_noSkip(state, choice) ==
    [k \in 1..Len(state.posts) |->
        LET p == state.posts[k] IN
        IF ~Truthy(p.acdbId) \/ choice[k] = NoText
        THEN Placeholder(p.acdbId, p)
        ELSE [acdbId |-> p.acdbId, name |-> Details(p.acdbId).name,
              series |-> Details(p.acdbId).series,
              imagePath |-> ImageFile(Details(p.acdbId).name, choice[k])]]

recoverPostsFromState(state, choice) ==
    [k \in 1..Len(state.posts) |->
        LET p == state.posts[k] IN
        IF p.status = "posted" THEN Placeholder(p.acdbId, p)
        ELSE IF ~Truthy(p.acdbId) THEN Placeholder(NoText, p)
        ELSE IF choice[k] = NoText THEN Placeholder(p.acdbId, p)
        ELSE [acdbId |-> p.acdbId, name |-> Details(p.acdbId).name,
              series |-> Details(p.acdbId).series,
              imagePath |-> ImageFile(Details(p.acdbId).name, choice[k])]]

\* a character without a valid image is left out of the list
preparePostsWithImages(characters, choice) ==
    LET all == [k \in 1..Len(characters) |->
                   [acdbId |-> characters[k].id, name |-> characters[k].name,
                    series |-> characters[k].series,
                    imagePath |-> IF choice[k] = NoText THEN NoText
                                  ELSE ImageFile(characters[k].name, choice[k])]]
    IN SelectSeq(all, LAMBDA p : p.imagePath # NoText)

\* preparePostsForToday without its effects on todaysPosts and the jobs:
\* kind is the branch taken, assigned tells whether todaysPosts is assigned,
\* store is the state file afterwards, schedule whether schedulePosts runs
preparePostsForToday(st, rOk, wOk, choice, scrapeOk) ==
    LET loaded == loadState(st, rOk) IN
    IF canRecoverFromState(loaded)
    THEN LET posts == recoverPostsFromState(loaded, choice) IN
         [kind |-> "recovered", assigned |-> TRUE, posts |-> posts, store |-> st,
          schedule |-> Len(posts) > 0]
    ELSE IF ~scrapeOk
    THEN [kind |-> "failed", assigned |-> FALSE, posts |-> <<>>, store |-> st,
          schedule |-> FALSE]
    ELSE LET posts == preparePostsWithImages(Birthdays, choice) IN
         IF Len(posts) = 0
         THEN [kind |-> "scraped", assigned |-> TRUE, posts |-> posts, store |-> st,
               schedule |-> FALSE]
         ELSE IF wOk
         THEN [kind |-> "scraped", assigned |-> TRUE, posts |-> posts,
               store |-> initializeTodaysState(loaded, posts), schedule |-> TRUE]
         ELSE \* saveState throws: awaited for a fresh state, not awaited in mergeState
              [kind |-> "scraped", assigned |-> TRUE, posts |-> posts, store |-> st,
               schedule |-> loaded.exists]

Downloaded(posts) ==
    {posts[k].imagePath : k \in {j \in 1..Len(posts) : posts[j].imagePath # NoText}}

\* schedulePosts within the day of the call: one job per post whose slot
\* time has not passed; the dates of the jobs are in schedulePostsAt below
schedulePosts(posts, now) ==
    {[slot |-> k - 1, listed |-> TRUE, imagePath |-> posts[k].imagePath] :
        k \in {j \in 1..Len(posts) : j - 1 < Len(POST_TIMES) /\ now < SlotClock(j - 1)}}

\* preparePostsForToday in the long-running process
PrepareBot(choice, scrapeOk) ==
    LET o == preparePostsForToday(store, readOk, writeOk, choice, scrapeOk)
        \* the posts of the jobs so far are no elements of a new todaysPosts
        old == IF o.assigned THEN {[j EXCEPT !.listed = FALSE] : j \in jobs} ELSE jobs
    IN /\ todaysPosts' = IF o.assigned THEN o.posts ELSE todaysPosts
       /\ lastPrep' = o.kind
       /\ store' = o.store
       /\ files' = files \cup Downloaded(o.posts)
       /\ jobs' = IF o.schedule THEN old \cup schedulePosts(o.posts, clock) ELSE old

----------------------------------------------------------------------------
(* index.js / twitter.js: the publish attempt *)

AllIdle == \A a \in AttemptIds : attempts[a].pc = "idle"

\* the attempt record a new attempt takes: the first idle one
FirstIdle(a) ==
    /\ attempts[a].pc = "idle"
    /\ \A b \in AttemptIds : attempts[b].pc = "idle" => a <= b

\* the image of the post-now script is a file of its own
PostNowFile == "post_now.jpg"

Accepted(s) == tweets[s].checked + tweets[s].unchecked

\* postSingleBirthday up to the first call of the posting service: a
\* placeholder returns, and so does a post isPostAlreadySent reports as sent
BeginAttempt(a, st, slot, hasIndex, index, imagePath, via) ==
    LET loaded == loadState(st, readOk) IN
    IF imagePath = NoText \/ (hasIndex /\ isPostAlreadySent(loaded, index))
    THEN attempts' = attempts
    ELSE attempts' = [attempts EXCEPT ![a] =
            [pc |-> "uploadMedia", slot |-> slot, hasIndex |-> hasIndex, index |-> index,
             imagePath |-> imagePath, via |-> via,
             readFailed |-> hasIndex /\ st.exists /\ ~readOk, tweetId |-> NoValue,
             error |-> NoText]]

\* the attempt returns: fs.unlink(imagePath) after a success, and in the
\* post-now script after a failure too
Finish(a, success) ==
    /\ attempts' = [attempts EXCEPT ![a] = Idle]
    /\ files' = IF success \/ attempts[a].via = "postnow"
                THEN files \ {attempts[a].imagePath} ELSE files

\* uploadMedia: throws when the file is gone or the upload fails
UploadMedia(a) ==
    /\ attempts[a].pc = "uploadMedia"
    /\ \E ok \in BOOLEAN :
          /\ ok => attempts[a].imagePath \in files \cup {PostNowFile}
          /\ IF ok
             THEN attempts' = [attempts EXCEPT ![a].pc = "postTweet"] /\ UNCHANGED files
             ELSE IF attempts[a].hasIndex
             THEN /\ \E error \in Errors :
                        attempts' = [attempts EXCEPT ![a].pc = "markPostAsFailed",
                                                     ![a].error = error]
                  /\ UNCHANGED files
             ELSE Finish(a, FALSE)
    /\ UNCHANGED <<store, envVars, clock, last, botMode, prepDue, todaysPosts, lastPrep, jobs, nowNext, starts, manualRuns, tweets>>

\* postTweet: the service accepts the post or rejects it
PostTweet(a) ==
    /\ attempts[a].pc = "postTweet"
    /\ \E ok \in BOOLEAN :
          IF ok
          THEN IF attempts[a].hasIndex
               THEN LET s == attempts[a].slot IN
                    /\ Accepted(s) < MaxTweets
                    /\ tweets' = IF attempts[a].index = s
                                 THEN [tweets EXCEPT ![s].checked = @ + 1]
                                 ELSE [tweets EXCEPT ![s].unchecked = @ + 1]
                    /\ attempts' = [attempts EXCEPT ![a].pc = "markPostAsSent",
                                                    ![a].tweetId = Accepted(s) + 1]
                    /\ UNCHANGED files
               ELSE UNCHANGED tweets /\ Finish(a, TRUE)
          ELSE /\ UNCHANGED tweets
               /\ IF attempts[a].hasIndex
                  THEN /\ \E error \in Errors :
                             attempts' = [attempts EXCEPT ![a].pc = "markPostAsFailed",
                                                          ![a].error = error]
                       /\ UNCHANGED files
                  ELSE Finish(a, FALSE)
    /\ UNCHANGED <<store, envVars, clock, last, botMode, prepDue, todaysPosts, lastPrep, jobs, nowNext, starts, manualRuns>>

\* markPostAsSent after a success; when saveState throws, the catch block of
\* postBirthdayTweet goes on to markPostAsFailed
MarkSent(a) ==
    LET loaded == loadState(store, readOk)
        at == attempts[a]
    IN /\ at.pc = "markPostAsSent"
       /\ IF MarkWrites(loaded, at.index) /\ ~writeOk
          THEN /\ \E error \in Errors :
                     attempts' = [attempts EXCEPT ![a].pc = "markPostAsFailed",
                                                  ![a].error = error]
               /\ UNCHANGED <<store, files>>
          ELSE /\ store' = IF MarkWrites(loaded, at.index)
                           THEN markPostAsSent(loaded, at.index, at.tweetId,
                                               TweetUrl(at.tweetId), clock)
                           ELSE store
               /\ Finish(a, TRUE)
       /\ UNCHANGED <<envVars, clock, last, botMode, prepDue, todaysPosts, lastPrep, jobs, nowNext, starts, manualRuns, tweets>>

\* markPostAsFailed; when saveState throws, postSingleBirthday catches it
MarkFailed(a) ==
    LET loaded == loadState(store, readOk)
        at == attempts[a]
    IN /\ at.pc = "markPostAsFailed"
       /\ store' = IF MarkWrites(loaded, at.index) /\ writeOk
                   THEN markPostAsFailed(loaded, at.index, at.error, clock)
                   ELSE store
       /\ Finish(a, FALSE)
       /\ UNCHANGED <<envVars, clock, last, botMode, prepDue, todaysPosts, lastPrep, jobs, nowNext, starts, manualRuns, tweets>>

----------------------------------------------------------------------------
(* The processes *)

\* main() without TRIGGER_POST_INDEX: mode "scheduler" registers the
\* daily-prep job and prepares, mode "now" (--now) runs prepareAndPostAll
Start(mode) ==
    /\ botMode = "down"
    /\ starts < MaxStarts
    /\ starts' = starts + 1
    /\ botMode' = mode
    /\ nowNext' = 0
    /\ \E choice \in ImageChoices, scrapeOk \in BOOLEAN : PrepareBot(choice, scrapeOk)
    /\ UNCHANGED <<envVars, clock, last, prepDue, attempts, manualRuns, tweets>>

\* the process ends (deploy, crash, SIGTERM): its memory, jobs and attempts go
Stop ==
    /\ botMode # "down"
    /\ botMode' = "down"
    /\ prepDue' = FALSE
    /\ todaysPosts' = <<>>
    /\ lastPrep' = "none"
    /\ jobs' = {}
    /\ nowNext' = 0
    /\ attempts' = [a \in AttemptIds |->
                      IF attempts[a].via \in {"job", "now"} THEN Idle ELSE attempts[a]]
    /\ UNCHANGED <<store, envVars, clock, last, files, starts, manualRuns, tweets>>

\* time passes; at PREP_TIME the daily-prep job of a scheduler process is due
Tick ==
    /\ clock < LastClock
    /\ ~prepDue
    /\ clock' = clock + 1
    /\ prepDue' = (clock + 1 = PrepClock /\ botMode = "scheduler")
    /\ UNCHANGED <<store, envVars, last, botMode, todaysPosts, lastPrep, jobs,
                   nowNext, attempts, files, starts, manualRuns, tweets>>

\* the daily-prep job: preparePostsForToday once more in the same process
DailyPrep ==
    /\ prepDue
    /\ prepDue' = FALSE
    /\ \E choice \in ImageChoices, scrapeOk \in BOOLEAN : PrepareBot(choice, scrapeOk)
    /\ UNCHANGED <<envVars, clock, last, botMode, nowNext, attempts, starts, manualRuns,
                   tweets>>

\* a job of schedulePosts fires: postSingleBirthday(post, todaysPosts.indexOf(post));
\* indexOf gives -1 once todaysPosts has been assigned again
RunJob(a) ==
    \E j \in jobs :
        /\ FirstIdle(a)
        /\ clock >= SlotClock(j.slot)
        /\ jobs' = jobs \ {j}
        /\ BeginAttempt(a, store, j.slot, TRUE,
                        IF j.listed THEN j.slot ELSE -1, j.imagePath, "job")
        /\ UNCHANGED <<store, envVars, clock, last, botMode, prepDue, todaysPosts,
                       lastPrep, nowNext, files, starts, manualRuns, tweets>>

\* one round of the loop of prepareAndPostAll: postSingleBirthday(todaysPosts[i], i)
NowPost(a) ==
    /\ botMode = "now"
    /\ nowNext < Len(todaysPosts)
    /\ FirstIdle(a)
    /\ \A b \in AttemptIds : attempts[b].via # "now"
    /\ nowNext' = nowNext + 1
    /\ BeginAttempt(a, store, nowNext, TRUE, nowNext, todaysPosts[nowNext + 1].imagePath, "now")
    /\ UNCHANGED <<store, envVars, clock, last, botMode, prepDue, todaysPosts, lastPrep, jobs, files, starts, manualRuns, tweets>>

\* a process started with TRIGGER_POST_INDEX: it prepares, publishes the
\* post of that index and exits (its birthday list and images are there)
Trigger(a) ==
    \E triggerPostIndex \in 0..(Len(Birthdays) - 1) :
        LET o == preparePostsForToday(store, readOk, writeOk,
                                      [k \in 1..Len(Birthdays) |-> "anilist"], TRUE) IN
        /\ FirstIdle(a)
        /\ manualRuns < MaxManual
        /\ manualRuns' = manualRuns + 1
        /\ store' = o.store
        /\ files' = files \cup Downloaded(o.posts)
        /\ IF Len(o.posts) > triggerPostIndex
           THEN BeginAttempt(a, o.store, triggerPostIndex, TRUE, triggerPostIndex,
                             o.posts[triggerPostIndex + 1].imagePath, "trigger")
           ELSE attempts' = attempts
        /\ UNCHANGED <<envVars, clock, last, botMode, prepDue, todaysPosts, lastPrep, jobs, nowNext, starts, tweets>>

\* scripts/post-now.js: resolves an image for a character of the day and
\* calls postBirthdayTweet with a null index
PostNowScript(a) ==
    /\ FirstIdle(a)
    /\ manualRuns < MaxManual
    /\ manualRuns' = manualRuns + 1
    /\ BeginAttempt(a, store, -1, FALSE, -1, PostNowFile, "postnow")
    /\ UNCHANGED <<store, envVars, clock, last, botMode, prepDue, todaysPosts,
                   lastPrep, jobs, nowNext, files, starts, tweets>>

\* the state store starts or stops failing
ToggleRead ==
    /\ readOk' = ~readOk
    /\ UNCHANGED <<store, writeOk, clock, last, procVars>>

ToggleWrite ==
    /\ writeOk' = ~writeOk
    /\ UNCHANGED <<store, readOk, clock, last, procVars>>

Begin ==
    \/ \E mode \in {"scheduler", "now"} : Start(mode)
    \/ Stop
    \/ Tick
    \/ DailyPrep
    \/ \E a \in AttemptIds : RunJob(a)
    \/ \E a \in AttemptIds : NowPost(a)
    \/ \E a \in AttemptIds : Trigger(a)
    \/ \E a \in AttemptIds : PostNowScript(a)

Step ==
    \/ \E a \in AttemptIds : UploadMedia(a)
    \/ \E a \in AttemptIds : PostTweet(a)
    \/ \E a \in AttemptIds : MarkSent(a)
    \/ \E a \in AttemptIds : MarkFailed(a)

\* operations one after the other, the state store working
NextSeq == (AllIdle /\ Begin) \/ Step

SpecSeq == Init /\ [][NextSeq]_vars

\* the scheduler process and a manual trigger in a second process, their
\* publish attempts interleaved at their awaits, the state store working
NextRace ==
    \/ Start("scheduler")
    \/ Tick
    \/ DailyPrep
    \/ \E a \in AttemptIds : RunJob(a)
    \/ \E a \in AttemptIds : Trigger(a)
    \/ Step

SpecRace == Init /\ [][NextRace]_vars

\* the scheduler process, its operations one after the other, the state
\* store failing at times
Next ==
    \/ AllIdle /\ Start("scheduler")
    \/ AllIdle /\ Stop
    \/ AllIdle /\ Tick
    \/ AllIdle /\ DailyPrep
    \/ AllIdle /\ \E a \in AttemptIds : RunJob(a)
    \/ Step
    \/ ToggleRead
    \/ ToggleWrite

Spec == Init /\ [][Next]_vars

----------------------------------------------------------------------------
(* Values of the image validation *)

\* names of characters and of series, as the scraper gives them
CharacterNames == {"L", "Suguru Geto", "Rin"}
SeriesNames == {"Death Note", "Jujutsu Kaisen", "86"}

\* descriptions of labels and web entities
Descriptions == {"L", "Death Note", "Suguru Geto", "Drink", "86"}

\* bytes of a downloaded file
FileSizes == {10000, 24999, 25000, 50000}

\* pixels of a side of an image
Lengths == {0, 100, 279, 280, 400}

----------------------------------------------------------------------------
(* image-resolver.js and the image part of preparePostsWithImages *)

\* the urls the list providers (Safebooru, Google) answer with
ImageUrls == {"a.jpg", "b.jpg"}

\* the place of a url in the order of String.prototype.localeCompare
UrlRank == [u \in ImageUrls |-> IF u = "a.jpg" THEN 1 ELSE 2]

localeCompare(a, b) ==
    IF UrlRank[a] < UrlRank[b] THEN -1 ELSE IF UrlRank[a] > UrlRank[b] THEN 1 ELSE 0

\* Array.prototype.sort is stable: x goes behind every item that does not
\* compare greater
InsertByUrl(sorted, x) ==
    LET n == Cardinality({k \in 1..Len(sorted) : localeCompare(sorted[k], x) <= 0})
    IN SubSeq(sorted, 1, n) \o <<x>> \o SubSeq(sorted, n + 1, Len(sorted))

\* a faulty sortByUrl that leaves the list as the provider answered it
sortByUrl_asAnswered(items) == items

RECURSIVE sortByUrl(_)
sortByUrl(items) ==
    IF items = <<>>
    THEN <<>>
    ELSE InsertByUrl(sortByUrl(SubSeq(items, 1, Len(items) - 1)), items[Len(items)])

UrlLists == UNION {[1..n -> ImageUrls] : n \in 0..MaxCandidates}

\* what one provider with a single candidate answers: no url, a url that
\* isUrlLikelyPlaceholder refuses, a url whose file downloads and validates,
\* or a url whose file does not
Answers == {"none", "ok", "bad"}

\* the provider responses of one resolution: for the list providers the urls
\* in the order answered, and the urls whose file downloads and validates
Responses ==
    [anilist : Answers,
     safebooru : UrlLists,
     googleConfigured : BOOLEAN,
     google : UrlLists,
     validUrls : SUBSET ImageUrls,
     image : Answers \cup {"placeholder"},
     image_large : Answers,
     malImage : Answers,
     thumbnail : Answers \cup {"placeholder"}]

NoImage(tried) == [source |-> NoText, url |-> NoText, tried |-> tried]

Found(source, url, tried) == [source |-> source, url |-> url, tried |-> tried]

\* one call of tryDownload, recorded
Try(source, url) == [source |-> source, url |-> url]

\* the for loop over the results of a list provider, from position i on:
\* the first url that tryDownload accepts
RECURSIVE TryList(_, _, _, _, _)
TryList(source, results, i, validUrls, tried) ==
    IF i > Len(results)
    THEN NoImage(tried)
    ELSE LET t == Append(tried, Try(source, results[i])) IN
         IF results[i] \in validUrls
         THEN Found(source, results[i], t)
         ELSE TryList(source, results, i + 1, validUrls, t)

\* 6. ACDB char.thumbnail
resolveThumbnail(r, hasAcdb, source, tried) ==
    IF hasAcdb /\ r.thumbnail \in {"ok", "bad"}
    THEN LET t == Append(tried, Try(source, "thumbnail")) IN
         IF r.thumbnail = "ok" THEN Found(source, "thumbnail", t) ELSE NoImage(t)
    ELSE NoImage(tried)

\* 5. MAL: malChar?.image_large || malChar?.image
resolveMal(r, hasAcdb, thumbSource, tried) ==
    LET malImageUrl == IF r.image_large # "none" THEN "image_large"
                       ELSE IF r.malImage # "none" THEN "image" ELSE NoText
        ok == IF r.image_large # "none" THEN r.image_large = "ok" ELSE r.malImage = "ok"
    IN IF malImageUrl # NoText
       THEN LET t == Append(tried, Try("mal", malImageUrl)) IN
            IF ok THEN Found("mal", malImageUrl, t)
            ELSE resolveThumbnail(r, hasAcdb, thumbSource, t)
       ELSE resolveThumbnail(r, hasAcdb, thumbSource, tried)

\* 4. ACDB char.image
resolveAcdb(r, hasAcdb, thumbSource, tried) ==
    IF hasAcdb /\ r.image \in {"ok", "bad"}
    THEN LET t == Append(tried, Try("acdb", "image")) IN
         IF r.image = "ok" THEN Found("acdb", "image", t)
         ELSE resolveMal(r, hasAcdb, thumbSource, t)
    ELSE resolveMal(r, hasAcdb, thumbSource, tried)

\* a faulty order of the providers: MAL before the ACDB image
resolveGoogle_malFirst(r, googleResults, hasAcdb, thumbSource, tried) ==
    LET g == IF r.googleConfigured
             THEN TryList("google", googleResults, 1, r.validUrls, tried)
             ELSE NoImage(tried)
        m == resolveMal([r EXCEPT !.thumbnail = "none"], hasAcdb, thumbSource, g.tried)
    IN IF g.source # NoText THEN g
       ELSE IF m.source # NoText THEN m
       ELSE resolveAcdb([r EXCEPT !.image_large = "none", !.malImage = "none"],
                        hasAcdb, thumbSource, m.tried)

\* 3. Google Images, if configured
resolveGoogle(r, googleResults, hasAcdb, thumbSource, tried) ==
    LET g == IF r.googleConfigured
             THEN TryList("google", googleResults, 1, r.validUrls, tried)
             ELSE NoImage(tried)
    IN IF g.source # NoText THEN g ELSE resolveAcdb(r, hasAcdb, thumbSource, g.tried)

\* 2. Safebooru
resolveSafebooru(r, safebooruResults, googleResults, hasAcdb, thumbSource, tried) ==
    LET s == TryList("safebooru", safebooruResults, 1, r.validUrls, tried)
    IN IF s.source # NoText THEN s
       ELSE resolveGoogle(r, googleResults, hasAcdb, thumbSource, s.tried)

\* 1. Anilist
resolveAnilist(r, safebooruResults, googleResults, hasAcdb, thumbSource) ==
    IF r.anilist # "none"
    THEN LET t == <<Try("anilist", "anilist")>> IN
         IF r.anilist = "ok" THEN Found("anilist", "anilist", t)
         ELSE resolveSafebooru(r, safebooruResults, googleResults, hasAcdb, thumbSource, t)
    ELSE resolveSafebooru(r, safebooruResults, googleResults, hasAcdb, thumbSource, <<>>)

\* image-resolver.js: the list providers' results go through sortByUrl
resolveImageForCharacter(r, hasAcdb) ==
    resolveAnilist(r, sortByUrl(r.safebooru), sortByUrl(r.google), hasAcdb, "acdb_thumb")

\* the option the post-now run hands to the resolver:
\* hasAcdb: !!(char.image || char.thumbnail)
HasAcdb(r) == r.image # "none" \/ r.thumbnail # "none"

\* index.js, preparePostsWithImages: the same providers with the results
\* of the list providers as answered and no hasAcdb option
prepareImage(r) ==
    resolveAnilist(r, r.safebooru, r.google, TRUE, "thumb")

\* one character resolved by the post-now run (resolveImageForCharacter) and
\* by the preparation run (preparePostsWithImages) from the same responses;
\* Google answers only where it is configured
ResolveImage ==
    /\ last = NoCall
    /\ \E r \in Responses :
        /\ r.googleConfigured \/ r.google = <<>>
        /\ last' = [op |-> "resolveImageForCharacter", index |-> 0, result |-> FALSE,
                    responses |-> r,
                    resolved |-> resolveImageForCharacter(r, HasAcdb(r)),
                    prepared |-> prepareImage(r)]
        /\ UNCHANGED <<store, clock, envVars, procVars>>

NextImage == ResolveImage

SpecImage == Init /\ [][NextImage]_vars

----------------------------------------------------------------------------
(* image-validation.js *)

MIN_FILE_SIZE_BYTES == 25000
MIN_WIDTH == 280
MIN_HEIGHT == 280

UpperCase == "ABCDEFGHIJKLMNOPQRSTUVWXYZ"
LowerCase == "abcdefghijklmnopqrstuvwxyz"
Digits == "0123456789"

CharAt(s, i) == SubSeq(s, i, i)

Has(s, c) == \E i \in 1..Len(s) : CharAt(s, i) = c

LowerChar(c) ==
    IF Has(UpperCase, c)
    THEN CharAt(LowerCase, CHOOSE i \in 1..Len(UpperCase) : CharAt(UpperCase, i) = c)
    ELSE c

RECURSIVE toLowerCase(_)
toLowerCase(s) ==
    IF Len(s) = 0 THEN ""
    ELSE LowerChar(CharAt(s, 1)) \o toLowerCase(SubSeq(s, 2, Len(s)))

\* String.prototype.includes
includes(text, w) ==
    \E i \in 1..(Len(text) - Len(w) + 1) : SubSeq(text, i, i + Len(w) - 1) = w

\* texts.join(' ')
RECURSIVE join(_)
join(texts) ==
    IF texts = <<>> THEN ""
    ELSE IF Len(texts) = 1 THEN texts[1]
    ELSE texts[1] \o " " \o join(Tail(texts))

\* \w of the regular expression, of the characters of the names at hand
IsWordChar(c) == Has(LowerCase, c) \/ Has(UpperCase, c) \/ Has(Digits, c) \/ c = "_"

\* .replace(/[^\w\s\u00C0-\u024F]/g, ' ')
RECURSIVE ReplaceOthers(_)
ReplaceOthers(s) ==
    IF Len(s) = 0 THEN ""
    ELSE (IF IsWordChar(CharAt(s, 1)) THEN CharAt(s, 1) ELSE " ")
         \o ReplaceOthers(SubSeq(s, 2, Len(s)))

\* .split(/\s+/) without the empty strings it gives at the ends: the
\* sequence of the longest runs without a space; word is the run so far
RECURSIVE Split(_, _)
Split(s, word) ==
    IF Len(s) = 0
    THEN IF word = "" THEN <<>> ELSE <<word>>
    ELSE IF CharAt(s, 1) = " "
         THEN (IF word = "" THEN <<>> ELSE <<word>>) \o Split(SubSeq(s, 2, Len(s)), "")
         ELSE Split(SubSeq(s, 2, Len(s)), word \o CharAt(s, 1))

\* the lower-case tokens of a text
Tokens(text) == Split(ReplaceOthers(toLowerCase(text)), "")

\* /^\d+$/.test(w)
AllDigits(w) == Len(w) > 0 /\ \A i \in 1..Len(w) : Has(Digits, CharAt(w, i))

\* a faulty getSearchWords that keeps short and numeric tokens
getSearchWords_all(text) == Tokens(text)

getSearchWords(text) ==
    SelectSeq(Tokens(text), LAMBDA w : Len(w) >= 2 /\ ~AllDigits(w))

\* what the Vision API answers: nothing when it is not asked, nothing
\* usable (the request throws), a body without responses[0], or the
\* descriptions of its labels and web entities
LabelLists == UNION {[1..n -> Descriptions] : n \in 0..MaxLabels}

VisionResponses ==
    {[kind |-> "unasked", texts |-> <<>>],
     [kind |-> "error", texts |-> <<>>], [kind |-> "none", texts |-> <<>>]}
    \cup {[kind |-> "annotated", texts |-> t] : t \in LabelLists}

\* a faulty validateWithVisionApi that rejects the image when the request fails
validateWithVisionApi_failClosed(apiKey, response, characterName, series) ==
    IF ~apiKey THEN [valid |-> TRUE]
    ELSE [valid |-> FALSE]

validateWithVisionApi(apiKey, response, characterName, series) ==
    IF ~apiKey THEN [valid |-> TRUE]
    ELSE IF response.kind = "error" THEN [valid |-> TRUE]
    ELSE IF response.kind = "none" THEN [valid |-> TRUE]
    ELSE LET combinedText == toLowerCase(join(response.texts))
             charWords == getSearchWords(characterName)
             seriesWords == getSearchWords(series)
             charMatches == SelectSeq(charWords, LAMBDA w : includes(combinedText, w))
             seriesMatches == SelectSeq(seriesWords, LAMBDA w : includes(combinedText, w))
             hasCharacter == Len(charMatches) >= 1
             hasSeries == Len(seriesMatches) >= 1
             hasStrongCharacter == Len(charMatches) >= 2
         IN [valid |-> hasCharacter /\ (hasSeries \/ hasStrongCharacter)]

\* the outcome of validateImageFile: read tells whether the dimensions were
\* read, recognition whether validateWithVisionApi was called
Verdict(valid, reason, read, recognition) ==
    [valid |-> valid, reason |-> reason, read |-> read, recognition |-> recognition]

\* a faulty validateImageFile that accepts a file that is wide enough
validateImageFile_widthOnly(file, apiKey, response, characterName, series) ==
    IF ~file.path THEN Verdict(FALSE, "No file path", FALSE, FALSE)
    ELSE IF ~file.isFile THEN Verdict(FALSE, "Not a file", FALSE, FALSE)
    ELSE IF file.size < MIN_FILE_SIZE_BYTES THEN Verdict(FALSE, "size", FALSE, FALSE)
    ELSE IF ~file.readable THEN Verdict(FALSE, "unreadable", TRUE, FALSE)
    ELSE IF file.width < MIN_WIDTH THEN Verdict(FALSE, "dimensions", TRUE, FALSE)
    ELSE IF ~validateWithVisionApi(apiKey, response, characterName, series).valid
         THEN Verdict(FALSE, "vision", TRUE, TRUE)
    ELSE Verdict(TRUE, NoText, TRUE, TRUE)

validateImageFile(file, apiKey, response, characterName, series) ==
    IF ~file.path THEN Verdict(FALSE, "No file path", FALSE, FALSE)
    ELSE IF ~file.isFile THEN Verdict(FALSE, "Not a file", FALSE, FALSE)
    ELSE IF file.size < MIN_FILE_SIZE_BYTES THEN Verdict(FALSE, "size", FALSE, FALSE)
    ELSE IF ~file.readable THEN Verdict(FALSE, "unreadable", TRUE, FALSE)
    ELSE IF file.width = 0 \/ file.height = 0
         THEN Verdict(FALSE, "invalid dimensions", TRUE, FALSE)
    ELSE IF file.width < MIN_WIDTH \/ file.height < MIN_HEIGHT
         THEN Verdict(FALSE, "dimensions", TRUE, FALSE)
    ELSE IF ~validateWithVisionApi(apiKey, response, characterName, series).valid
         THEN Verdict(FALSE, "vision", TRUE, TRUE)
    ELSE Verdict(TRUE, NoText, TRUE, TRUE)

\* the downloaded files: no path, a directory, a file whose dimensions
\* cannot be read, and image files around the thresholds
ImageFiles ==
    {[path |-> FALSE, isFile |-> FALSE, size |-> 0, readable |-> FALSE, width |-> 0, height |-> 0],
     [path |-> TRUE, isFile |-> FALSE, size |-> 0, readable |-> FALSE, width |-> 0, height |-> 0]}
    \cup {[path |-> TRUE, isFile |-> TRUE, size |-> s, readable |-> FALSE, width |-> 0, height |-> 0] :
            s \in FileSizes}
    \cup {[path |-> TRUE, isFile |-> TRUE, size |-> s, readable |-> TRUE, width |-> w, height |-> h] :
            s \in FileSizes, w \in Lengths, h \in Lengths}

\* one downloaded file validated
ValidateImage ==
    /\ last = NoCall
    /\ \E file \in ImageFiles, apiKey \in BOOLEAN, response \in VisionResponses,
          characterName \in CharacterNames, series \in SeriesNames :
        /\ apiKey = (response.kind # "unasked")
        /\ last' = [op |-> "validateImageFile", index |-> 0, result |-> FALSE,
                    file |-> file, apiKey |-> apiKey, response |-> response,
                    characterName |-> characterName, series |-> series,
                    verdict |-> validateImageFile(file, apiKey, response,
                                                  characterName, series)]
        /\ UNCHANGED <<store, clock, envVars, procVars>>

NextValidate == ValidateImage

SpecValidate == Init /\ [][NextValidate]_vars

----------------------------------------------------------------------------
(* jikan.js: names *)

\* .replace(/\s+/g, ' '): every run of spaces becomes one space
RECURSIVE CollapseSpaces(_)
CollapseSpaces(s) ==
    IF Len(s) = 0 THEN ""
    ELSE IF CharAt(s, 1) = " " /\ Len(s) >= 2 /\ CharAt(s, 2) = " "
         THEN CollapseSpaces(SubSeq(s, 2, Len(s)))
         ELSE CharAt(s, 1) \o CollapseSpaces(SubSeq(s, 2, Len(s)))

\* .replace(/,/g, ' ')
RECURSIVE ReplaceCommas(_)
ReplaceCommas(s) ==
    IF Len(s) = 0 THEN ""
    ELSE (IF CharAt(s, 1) = "," THEN " " ELSE CharAt(s, 1))
         \o ReplaceCommas(SubSeq(s, 2, Len(s)))

\* .trim()
RECURSIVE trim(_)
trim(s) ==
    IF Len(s) = 0 THEN ""
    ELSE IF CharAt(s, 1) = " " THEN trim(SubSeq(s, 2, Len(s)))
    ELSE IF CharAt(s, Len(s)) = " " THEN trim(SubSeq(s, 1, Len(s) - 1))
    ELSE s

\* .replace(/(.)\1+/g, '$1'): every run of one character becomes that character
RECURSIVE CollapseRepeats(_)
CollapseRepeats(s) ==
    IF Len(s) = 0 THEN ""
    ELSE IF Len(s) >= 2 /\ CharAt(s, 1) = CharAt(s, 2)
         THEN CollapseRepeats(SubSeq(s, 2, Len(s)))
         ELSE CharAt(s, 1) \o CollapseRepeats(SubSeq(s, 2, Len(s)))

\* a faulty normalizeName that keeps doubled letters
normalizeName_keepRepeats(s) ==
    trim(ReplaceCommas(CollapseSpaces(toLowerCase(s))))

\* the names at hand have no accents, so that normalize('NFD') and the removal
\* of the combining marks leave them as they are
normalizeName(s) ==
    CollapseRepeats(trim(ReplaceCommas(CollapseSpaces(toLowerCase(s)))))

\* name.split(','): the pieces between the commas; piece is the one so far
RECURSIVE SplitCommas(_, _)
SplitCommas(s, piece) ==
    IF Len(s) = 0 THEN <<piece>>
    ELSE IF CharAt(s, 1) = ","
         THEN <<piece>> \o SplitCommas(SubSeq(s, 2, Len(s)), "")
         ELSE SplitCommas(SubSeq(s, 2, Len(s)), piece \o CharAt(s, 1))

malNameToFirstLast(name) ==
    IF ~Has(name, ",") THEN name
    ELSE LET pieces == [k \in 1..Len(SplitCommas(name, "")) |-> trim(SplitCommas(name, "")[k])]
             last_ == pieces[1]
             first == trim(join(Tail(pieces)))
         IN IF first # "" THEN first \o " " \o last_ ELSE last_

\* a faulty nameMatch that takes a searched name of one token for a partial match
nameMatch_oneToken(characterName, malName) ==
    LET searchNorm == normalizeName(characterName)
        charNorm == normalizeName(malNameToFirstLast(malName))
        searchParts == Split(searchNorm, "")
    IN IF charNorm = searchNorm THEN 2
       ELSE IF \A k \in 1..Len(searchParts) : includes(charNorm, searchParts[k]) THEN 1
       ELSE 0

\* the name tier of a catalog name for a searched name: 2 exact, 1 partial, 0 none
nameMatch(characterName, malName) ==
    LET searchNorm == normalizeName(characterName)
        charNorm == normalizeName(malNameToFirstLast(malName))
        exact == charNorm = searchNorm
        searchParts == Split(searchNorm, "")
        partial == Len(searchParts) >= 2
                   /\ \A k \in 1..Len(searchParts) : includes(charNorm, searchParts[k])
    IN IF exact THEN 2 ELSE IF partial THEN 1 ELSE 0

\* family and given names
NameParts == {"Geto", "Suguru", "Tsukishima", "Shuukurou", "Shukuro", "Ichigo"}

\* the names searched for: one name, or "Given Family"
QueryNames == NameParts \cup {g \o " " \o f : g \in NameParts, f \in NameParts}

\* the names of the catalog: one name, "Family, Given" or "Given Family"
CandidateNames ==
    NameParts \cup {f \o ", " \o g : g \in NameParts, f \in NameParts}
              \cup {g \o " " \o f : g \in NameParts, f \in NameParts}

\* one candidate of the catalog compared with the searched name
MatchName ==
    /\ last = NoCall
    /\ \E characterName \in QueryNames, malName \in CandidateNames :
        /\ last' = [op |-> "nameMatch", index |-> 0, result |-> FALSE,
                    characterName |-> characterName, malName |-> malName,
                    searchNorm |-> normalizeName(characterName),
                    charNorm |-> normalizeName(malNameToFirstLast(malName)),
                    tier |-> nameMatch(characterName, malName)]
        /\ UNCHANGED <<store, clock, envVars, procVars>>

NextNames == MatchName

SpecNames == Init /\ [][NextNames]_vars

----------------------------------------------------------------------------
(* jikan.js: searchCharacter *)

\* the characters of the catalog by mal_id: two of the same name in different
\* series, one whose name holds the tokens of "Suguru Geto" without being
\* equal to it, and one of another name
Catalog ==
    << [name |-> "Geto, Suguru", about |-> "about 1", anime |-> <<"Jujutsu Kaisen">>],
       [name |-> "Geto, Suguru", about |-> "about 2", anime |-> <<"Naruto", "Bleach">>],
       [name |-> "Getou, Suguru", about |-> "about 3", anime |-> <<"Bleach">>],
       [name |-> "Kurosaki, Ichigo", about |-> "about 4", anime |-> <<"Bleach">>] >>

MalIds == 1..Len(Catalog)

\* no character
NoId == 0

\* the names and series the scraper hands to searchCharacter
SearchedNames == {"Suguru Geto", "Ichigo"}
GuessedSeries == {NoText, "Bleach", "Jujutsu Kaisen"}

\* what a list request of the catalog answers: mal_ids in the order listed
IdLists == UNION {[1..n -> MalIds] : n \in 0..MaxListed}

\* the answers of the catalog to one call of searchCharacter
Answers_jikan ==
    [characterName : SearchedNames,
     animeName : GuessedSeries,
     animeFound : BOOLEAN,              \* searchAnime finds the series
     characters : IdLists,              \* getAnimeCharacters
     data : IdLists,                    \* /characters?q=<name>
     data2 : MalIds \cup {NoId},        \* first of /characters?q=<name series>
     fullOk : BOOLEAN,                  \* getCharacterById answers in Strategy 1
     fullOk2 : BOOLEAN]                 \* getCharacterById answers at the end

\* .replace(/[^\w\s]/g, '')
RECURSIVE RemoveOthers(_)
RemoveOthers(s) ==
    IF Len(s) = 0 THEN ""
    ELSE (IF IsWordChar(CharAt(s, 1)) \/ CharAt(s, 1) = " " THEN CharAt(s, 1) ELSE "")
         \o RemoveOthers(SubSeq(s, 2, Len(s)))

StopWords == {"the", "no", "ni", "wa", "ga", "de", "to"}

\* the keywords of the guessed series in the scoring of the global search
ScoreKeywords(animeName) ==
    IF animeName = NoText THEN <<>>
    ELSE SelectSeq(Split(RemoveOthers(toLowerCase(animeName)), ""),
                   LAMBDA w : Len(w) > 2 /\ w \notin StopWords)

\* the keywords of the guessed series in the check of an unverified match
CheckKeywords(animeName) ==
    SelectSeq(Split(RemoveOthers(toLowerCase(animeName)), ""), LAMBDA w : Len(w) > 2)

\* nameMatch of every searched name and catalog character
NameTier ==
    [n \in SearchedNames |-> [id \in MalIds |-> nameMatch(n, Catalog[id].name)]]

\* the first roster member whose name matches exactly or partially
RECURSIVE ScanRoster(_, _, _)
ScanRoster(characterName, characters, k) ==
    IF k > Len(characters) THEN NoId
    ELSE IF last.tier[characterName][characters[k]] >= 1 THEN characters[k]
    ELSE ScanRoster(characterName, characters, k + 1)

\* nameMatch * 10 + hasAnime
Score(characterName, animeName, id) ==
    LET animeKeywords == ScoreKeywords(animeName)
        titles == toLowerCase(join(Catalog[id].anime))
        hasAnime == IF \E k \in 1..Len(animeKeywords) : includes(titles, animeKeywords[k])
                    THEN 1 ELSE 0
    IN NameTier[characterName][id] * 10 + hasAnime

\* Score of every searched name, guessed series and catalog character
ScoreOf ==
    [n \in SearchedNames |-> [a \in GuessedSeries |-> [id \in MalIds |-> Score(n, a, id)]]]

\* the loop over data.data: a result replaces the best one so far when its
\* name matches and its score is greater
RECURSIVE ScanResults(_, _, _, _, _, _)
ScanResults(characterName, animeName, data, k, bestScore, bestMatch) ==
    IF k > Len(data) THEN bestMatch
    ELSE IF last.tier[characterName][data[k]] >= 1
            /\ last.score[characterName][animeName][data[k]] > bestScore
         THEN ScanResults(characterName, animeName, data, k + 1,
                          last.score[characterName][animeName][data[k]], data[k])
         ELSE ScanResults(characterName, animeName, data, k + 1, bestScore, bestMatch)

\* a title of the list holds a keyword
TitleMatches(title, keywords) ==
    \E k \in 1..Len(keywords) : includes(toLowerCase(title), keywords[k])

Titles == UNION {{Catalog[id].anime[k] : k \in 1..Len(Catalog[id].anime)} : id \in MalIds}

\* TitleMatches of every title for the keywords of a guessed series
TitleHit ==
    [a \in GuessedSeries \ {NoText} |->
        [t \in Titles |-> TitleMatches(t, CheckKeywords(a))]]

\* the anime list with the first title that holds a keyword moved to the front
Reordered(anime, animeName) ==
    IF animeName # NoText /\ Len(anime) > 1
    THEN LET hits == {k \in 1..Len(anime) : last.hit[animeName][anime[k]]}
             idx == IF hits = {} THEN 0 ELSE CHOOSE k \in hits : \A j \in hits : k <= j
         IN IF idx > 1
            THEN <<anime[idx]>> \o SubSeq(anime, 1, idx - 1) \o SubSeq(anime, idx + 1, Len(anime))
            ELSE anime
    ELSE anime

\* via tells where bestMatch came from: the roster, the scan of the global
\* search, the combined search, or the first result of the global search
NoRecord(requests) ==
    [found |-> FALSE, mal_id |-> NoId, name |-> NoText, about |-> NoText,
     anime |-> <<>>, genres |-> <<>>, via |-> NoText, requests |-> requests]

\* getCharacterById(malId, genres) when it answers
FullRecord(malId, genres, via, requests) ==
    [found |-> TRUE, mal_id |-> malId, name |-> Catalog[malId].name,
     about |-> Catalog[malId].about, anime |-> Catalog[malId].anime,
     genres |-> genres, via |-> via, requests |-> requests]

\* Strategy 2 and the end of searchCharacter; rosterMatch is the bestMatch
\* that Strategy 1 leaves behind
Strategy2(q, rosterMatch, animeGenres, requests1) ==
    LET requests2 == Append(requests1, "search") IN
    IF q.data = <<>> THEN NoRecord(requests2)
    ELSE
    LET scanned == IF rosterMatch = NoId
                   THEN ScanResults(q.characterName, q.animeName, q.data, 1, -1, NoId)
                   ELSE rosterMatch
        combine == scanned = NoId /\ q.animeName # NoText
        combined == IF combine /\ q.data2 # NoId THEN q.data2 ELSE scanned
        requests3 == IF combine THEN Append(requests2, "combined search") ELSE requests2
        isVerifiedMatch == combined # NoId
        bestMatch == IF combined # NoId THEN combined ELSE q.data[1]
        requests4 == Append(requests3, "full")
        via == IF rosterMatch # NoId THEN "roster"
               ELSE IF scanned # NoId THEN "search"
               ELSE IF combined # NoId THEN "combined search"
               ELSE "first result"
    IN IF q.fullOk2
       THEN LET fullChar == FullRecord(bestMatch, animeGenres, via, requests4)
                anime == Reordered(fullChar.anime, q.animeName)
                animeMatches == \E k \in 1..Len(anime) : last.hit[q.animeName][anime[k]]
            IN IF ~isVerifiedMatch /\ q.animeName # NoText /\ Len(anime) > 0 /\ ~animeMatches
               THEN [fullChar EXCEPT !.anime = anime, !.about = NoText]
               ELSE [fullChar EXCEPT !.anime = anime]
       ELSE [found |-> TRUE, mal_id |-> bestMatch, name |-> Catalog[bestMatch].name,
             about |-> NoText, anime |-> <<>>, genres |-> animeGenres,
             via |-> via, requests |-> requests4]

\* a faulty Strategy 1 that goes on to the global search after a roster match
searchCharacter_alwaysGlobal(q) ==
    Strategy2(q, NoId, <<>>, <<>>)

searchCharacter(q) ==
    LET asked == q.animeName # NoText
        anime == asked /\ q.animeFound
        animeGenres == IF anime THEN <<"Action">> ELSE <<>>
        rosterMatch == IF anime THEN ScanRoster(q.characterName, q.characters, 1) ELSE NoId
        requests1 == (IF asked THEN <<"anime">> ELSE <<>>)
                     \o (IF anime THEN <<"anime characters">> ELSE <<>>)
                     \o (IF rosterMatch # NoId THEN <<"full">> ELSE <<>>)
    IN IF rosterMatch # NoId /\ q.fullOk
       THEN FullRecord(rosterMatch, animeGenres, "roster", requests1)
       ELSE Strategy2(q, rosterMatch, animeGenres, requests1)

\* index.js, preparePostsWithImages: the character of the post
PreparedCharacter(char, malChar) ==
    [name |-> IF malChar.found THEN malChar.name ELSE char.name,
     series |-> char.series,
     about |-> IF malChar.found THEN malChar.about ELSE NoText,
     genres |-> IF malChar.found THEN malChar.genres ELSE <<>>]

\* the comparisons of the names and titles of the catalog, made once: the
\* searches below read them in tier, score and hit
ReadCatalog ==
    /\ last = NoCall
    /\ last' = [op |-> "catalog", index |-> 0, result |-> FALSE,
                tier |-> NameTier, score |-> ScoreOf, hit |-> TitleHit]
    /\ UNCHANGED <<store, clock, envVars, procVars>>

\* one call of searchCharacter from preparePostsWithImages; the roster of a
\* series is asked for only when the series was found, and the full record
\* in Strategy 1 only for a roster member that matches
SearchCharacter ==
    /\ last.op = "catalog"
    /\ \E q \in Answers_jikan :
        /\ q.animeFound => q.animeName # NoText
        /\ q.characters # <<>> => q.animeFound
        /\ ~q.fullOk => ScanRoster(q.characterName, q.characters, 1) # NoId
        /\ last' = [op |-> "searchCharacter", index |-> 0, result |-> FALSE,
                    tier |-> last.tier, score |-> last.score, hit |-> last.hit,
                    q |-> q, malChar |-> searchCharacter(q),
                    post |-> PreparedCharacter([name |-> q.characterName,
                                                series |-> q.animeName],
                                               searchCharacter(q))]
        /\ UNCHANGED <<store, clock, envVars, procVars>>

NextJikan == ReadCatalog \/ SearchCharacter

SpecJikan == Init /\ [][NextJikan]_vars

----------------------------------------------------------------------------
(* jikan.js: the requests of one searchCharacter call *)

\* the two searchCharacter of the repository: src/jikan.js, which index.js
\* imports, and the one with Strategy 1 and jikanRequest(endpoint, retries = 3)
Implementations == {"src/jikan.js", "strategies"}

\* HTTP status of an answer of the catalog
Statuses == {200, 429, 500}

RETRIES == 3

\* the count one higher, up to the bound of the model
Counted(n) == IF n < MaxRequests THEN n + 1 ELSE n

\* searchCharacter is called for a character of the day; limited tells that
\* the catalog answers every request of the call with 429
StartSearch ==
    /\ last = NoCall
    /\ \E impl \in Implementations, limited \in BOOLEAN,
          characterName \in SearchedNames, animeName \in GuessedSeries :
        last' = [op |-> "search", index |-> 0, result |-> FALSE,
                 impl |-> impl, limited |-> limited,
                 characterName |-> characterName, animeName |-> animeName,
                 pc |-> "request",
                 endpoint |-> IF impl = "strategies" /\ animeName # NoText
                              THEN "anime" ELSE "search",
                 retries |-> RETRIES, requests |-> 0, pauses |-> 0,
                 bestMatch |-> NoId, first |-> NoId,
                 malChar |-> NoRecord(<<>>)]
    /\ UNCHANGED <<store, clock, envVars, procVars>>

\* searchCharacter returns malChar to preparePostsWithImages
Returned(malChar) ==
    [last EXCEPT !.pc = "done", !.malChar = malChar, !.requests = Counted(last.requests)]

\* the next request of the call
Request(endpoint) ==
    [last EXCEPT !.pc = "request", !.endpoint = endpoint, !.retries = RETRIES,
                 !.requests = Counted(last.requests)]

\* src/jikan.js: the catalog answers the one request of searchCharacter
AnswerSimple ==
    /\ last.op = "search" /\ last.pc = "request" /\ last.impl = "src/jikan.js"
    /\ \E status \in Statuses, id \in MalIds \cup {NoId} :
        /\ last.limited => status = 429
        /\ status # 200 => id = NoId
        /\ last' = IF status = 429
                   THEN \* catch: await sleep(1000); return searchCharacter(...)
                        [last EXCEPT !.pc = "sleep", !.requests = Counted(last.requests)]
                   ELSE IF status = 200 /\ id # NoId
                   THEN Returned([FullRecord(id, <<>>, "search", <<>>)
                                     EXCEPT !.about = NoText, !.anime = <<>>])
                   ELSE Returned(NoRecord(<<>>))
    /\ UNCHANGED <<store, clock, envVars, procVars>>

\* the searchCharacter with strategies: the catalog answers a request of
\* jikanRequest; id is the character a successful answer leads to (the match
\* of the roster scan, the best match of the global scan when matched, else
\* the first of the results)
AnswerStrategies ==
    /\ last.op = "search" /\ last.pc = "request" /\ last.impl = "strategies"
    /\ \E status \in Statuses, id \in MalIds \cup {NoId}, matched \in BOOLEAN :
        /\ last.limited => status = 429
        /\ status # 200 => id = NoId
        /\ matched => id # NoId /\ last.endpoint = "search"
        /\ last' =
            IF status = 429 /\ last.retries > 0
            THEN \* await sleep(2000); return jikanRequest(endpoint, retries - 1)
                 [last EXCEPT !.pc = "sleep", !.retries = last.retries - 1,
                              !.requests = Counted(last.requests)]
            ELSE CASE last.endpoint = "anime" ->
                        \* searchAnime: null when it throws or finds nothing
                        IF status = 200 /\ id # NoId
                        THEN Request("anime characters") ELSE Request("search")
                   [] last.endpoint = "anime characters" ->
                        \* getAnimeCharacters: [] when it throws; id is the match
                        IF status = 200 /\ id # NoId
                        THEN [Request("full of roster") EXCEPT !.bestMatch = id]
                        ELSE Request("search")
                   [] last.endpoint = "full of roster" ->
                        \* getCharacterById: null when it throws
                        IF status = 200
                        THEN Returned(FullRecord(last.bestMatch, <<>>, "roster", <<>>))
                        ELSE Request("search")
                   [] last.endpoint = "search" ->
                        \* the throw of jikanRequest ends searchCharacter with null
                        IF status # 200 \/ id = NoId THEN Returned(NoRecord(<<>>))
                        ELSE IF last.bestMatch # NoId
                        THEN [Request("full") EXCEPT !.first = id]
                        ELSE IF matched
                        THEN [Request("full") EXCEPT !.first = id, !.bestMatch = id]
                        ELSE IF last.animeName # NoText
                        THEN [Request("combined") EXCEPT !.first = id]
                        ELSE [Request("full") EXCEPT !.first = id, !.bestMatch = id]
                   [] last.endpoint = "combined" ->
                        IF status # 200 THEN Returned(NoRecord(<<>>))
                        ELSE [Request("full") EXCEPT !.bestMatch =
                                 IF id # NoId THEN id ELSE last.first]
                   [] last.endpoint = "full" ->
                        IF status = 200
                        THEN Returned(FullRecord(last.bestMatch, <<>>, "search", <<>>))
                        ELSE Returned([FullRecord(last.bestMatch, <<>>, "search", <<>>)
                                          EXCEPT !.about = NoText, !.anime = <<>>])
    /\ UNCHANGED <<store, clock, envVars, procVars>>

\* the pause is over and the request is made again
Retry ==
    /\ last.op = "search" /\ last.pc = "sleep"
    /\ last' = [last EXCEPT !.pc = "request", !.pauses = Counted(last.pauses)]
    /\ UNCHANGED <<store, clock, envVars, procVars>>

NextRetry == StartSearch \/ AnswerSimple \/ AnswerStrategies \/ Retry

\* every request is answered and every pause ends
SpecRetry == Init /\ [][NextRetry]_vars /\ WF_vars(NextRetry)

----------------------------------------------------------------------------
(* scraper.js and index.js: the characters of the day and their slots *)

NUM_POSTS == 6

\* the numbers of "N favorites" the cards of the day page show
FavoriteCounts == {3, 55}

\* the ids of the character pages the cards link to
CardIds == [k \in 1..MaxCards |-> ToString(200 + k)]

\* getCharacterDetails: the name and the series of the character page of an id
CharacterPages ==
    [id \in {CardIds[k] : k \in 1..MaxCards} |->
        [name |-> "Character " \o id, series |-> "Series " \o id]]

\* the character cards of the day page: card k links to the character page
\* of id 200 + k and shows favs[k]; when again > 0 the link of card again is
\* listed once more after the others, with againFavs as its number
PageCards(favs, again, againFavs) ==
    [k \in 1..Len(favs) |-> [id |-> CardIds[k], favorites |-> favs[k]]]
    \o (IF again = 0 THEN <<>>
        ELSE << [id |-> CardIds[again], favorites |-> againFavs] >>)

\* [...new Map(characters.map(c => [c.id, c])).values()]: the ids in the order
\* of their first card, each with the values of its last card
UniqueChars(characters) ==
    LET firsts == SelectSeq([k \in 1..Len(characters) |-> k],
                            LAMBDA k : \A j \in 1..(k - 1) : characters[j].id # characters[k].id)
        LastOf(id) == CHOOSE k \in 1..Len(characters) :
                          /\ characters[k].id = id
                          /\ \A j \in (k + 1)..Len(characters) : characters[j].id # id
    IN [i \in 1..Len(firsts) |-> characters[LastOf(characters[firsts[i]].id)]]

\* chars with c put in by the stable sort of (a, b) => b.favorites - a.favorites
RECURSIVE InsertByFavorites(_, _)
InsertByFavorites(sorted, c) ==
    IF sorted = <<>> THEN <<c>>
    ELSE IF Head(sorted).favorites >= c.favorites
    THEN <<Head(sorted)>> \o InsertByFavorites(Tail(sorted), c)
    ELSE <<c>> \o sorted

RECURSIVE sortByFavorites(_)
sortByFavorites(chars) ==
    IF chars = <<>> THEN <<>>
    ELSE InsertByFavorites(sortByFavorites(SubSeq(chars, 1, Len(chars) - 1)),
                           chars[Len(chars)])

\* chars.slice(0, limit)
slice(chars, limit) == SubSeq(chars, 1, IF Len(chars) < limit THEN Len(chars) ELSE limit)

\* { ...char, ...details, favorites: char.favorites ?? details.favorites ?? 0 }
DetailsOf(char) ==
    [id |-> char.id, name |-> CharacterPages[char.id].name,
     series |-> CharacterPages[char.id].series, favorites |-> char.favorites]

getTodaysBirthdays(characters, limit) ==
    LET topChars == slice(sortByFavorites(UniqueChars(characters)), limit)
    IN [k \in 1..Len(topChars) |-> DetailsOf(topChars[k])]

\* the characters of a run for which no source gives a valid image: none or one
SkippedSets == {{}} \cup {{k} : k \in 1..NUM_POSTS}

\* preparePostsForToday scrapes the page of the day
ScrapeDay ==
    /\ last = NoCall
    /\ \E n \in 0..MaxCards, again \in 0..MaxCards, againFavs \in FavoriteCounts :
        /\ again <= n
        /\ again = 0 => againFavs = 3
        /\ \E favs \in [1..n -> FavoriteCounts] :
            LET page == PageCards(favs, again, againFavs)
            IN last' = [op |-> "getTodaysBirthdays", index |-> 0, result |-> FALSE,
                        page |-> page,
                        characters |-> getTodaysBirthdays(page, NUM_POSTS)]
    /\ UNCHANGED <<store, clock, envVars, procVars>>

\* the rest of the preparation of a day without a state file, before the
\* first slot: the images, the state file and the jobs
PrepareDay ==
    /\ last.op = "getTodaysBirthdays"
    /\ Len(last.characters) > 0
    /\ \E skipped \in SkippedSets :
        LET choice == [k \in 1..Len(last.characters) |->
                          IF k \in skipped THEN NoText ELSE "anilist"]
            posts == preparePostsWithImages(last.characters, choice)
        IN last' = [op |-> "prepareDay", index |-> 0, result |-> Len(posts) > 0,
                    page |-> last.page, characters |-> last.characters,
                    skipped |-> skipped \cap (1..Len(last.characters)),
                    posts |-> posts,
                    state |-> IF Len(posts) > 0
                              THEN initializeTodaysState(NoState, posts) ELSE NoState,
                    jobs |-> IF Len(posts) > 0
                             THEN schedulePosts(posts, PrepClock) ELSE {}]
    /\ UNCHANGED <<store, clock, envVars, procVars>>

NextDay == ScrapeDay \/ PrepareDay

SpecDay == Init /\ [][NextDay]_vars

----------------------------------------------------------------------------
(* cron-server.js: the endpoint of the external cron *)

\* the value of the decimal digit c
DigitValue(c) == (CHOOSE i \in 1..Len(Digits) : CharAt(Digits, i) = c) - 1

\* the digits of s from position k on, read as long as they are digits;
\* nan when there is none
RECURSIVE ParseDigits(_, _, _, _)
ParseDigits(s, k, acc, seen) ==
    IF k > Len(s) \/ ~Has(Digits, CharAt(s, k))
    THEN [nan |-> ~seen, value |-> acc]
    ELSE ParseDigits(s, k + 1, acc * 10 + DigitValue(CharAt(s, k)), TRUE)

\* leading white space removed
RECURSIVE trimStart(_)
trimStart(s) ==
    IF Len(s) > 0 /\ CharAt(s, 1) = " " THEN trimStart(SubSeq(s, 2, Len(s))) ELSE s

\* parseInt(s, 10): white space, a sign, then the digits up to the first
\* character that is none
parseInt(s) ==
    LET t == trimStart(s)
        signed == Len(t) > 0 /\ (CharAt(t, 1) = "-" \/ CharAt(t, 1) = "+")
        negative == signed /\ CharAt(t, 1) = "-"
        p == ParseDigits(IF signed THEN SubSeq(t, 2, Len(t)) ELSE t, 1, 0, FALSE)
    IN [nan |-> p.nan, value |-> IF negative THEN 0 - p.value ELSE p.value]

\* the requests the model sends; NoText stands for a missing parameter
Methods == {"GET", "POST"}
Pathnames == {"/", "/health", "/run", "/other"}
Tokens_cron == {NoText, "", "s3cret", "wrong"}
Secrets == {NoText, "", "s3cret"}
Actions == {NoText, "prep", "post", "other"}
IndexTexts == {NoText, "0", "6", "7", "-1", "3abc", "abc", " 4", "2.7"}

Requests ==
    [method : Methods, pathname : Pathnames, token : Tokens_cron,
     action : Actions, index : IndexTexts]

NoChild == [action |-> "none", index |-> 0]

\* the handler after the check of the token: the status sent and the child
\* process spawned by runAction; childOk tells whether it exits with code 0
runRequest(req, childOk) ==
    IF req.action = "prep"
    THEN [status |-> IF childOk THEN 200 ELSE 500,
          child |-> [action |-> "prep", index |-> 0]]
    ELSE IF req.action = "post"
    THEN LET index == IF req.index # NoText THEN parseInt(req.index)
                      ELSE [nan |-> TRUE, value |-> 0]
         IN IF index.nan \/ index.value < 0 \/ index.value > 6
            THEN [status |-> 400, child |-> NoChild]
            ELSE [status |-> IF childOk THEN 200 ELSE 500,
                  child |-> [action |-> "post", index |-> index.value]]
    ELSE [status |-> 400, child |-> NoChild]

\* a faulty handler that compares the token without looking whether a
\* secret is configured
handleRequest_tokenOnly(req, CRON_SECRET, childOk) ==
    IF req.pathname = "/" \/ req.pathname = "/health"
    THEN [status |-> 200, child |-> NoChild]
    ELSE IF req.pathname # "/run" \/ req.method # "GET"
    THEN [status |-> 404, child |-> NoChild]
    ELSE IF req.token # CRON_SECRET
    THEN [status |-> 401, child |-> NoChild]
    ELSE runRequest(req, childOk)

\* the handler of http.createServer
handleRequest(req, CRON_SECRET, childOk) ==
    IF req.pathname = "/" \/ req.pathname = "/health"
    THEN [status |-> 200, child |-> NoChild]
    ELSE IF req.pathname # "/run" \/ req.method # "GET"
    THEN [status |-> 404, child |-> NoChild]
    ELSE IF ~Truthy(CRON_SECRET) \/ req.token # CRON_SECRET
    THEN [status |-> 401, child |-> NoChild]
    ELSE runRequest(req, childOk)

\* one request to the cron server
HandleRequest ==
    /\ last = NoCall
    /\ \E req \in Requests, secret \in Secrets, childOk \in BOOLEAN :
        last' = [op |-> "request", index |-> 0, result |-> childOk,
                 req |-> req, CRON_SECRET |-> secret,
                 response |-> handleRequest(req, secret, childOk)]
    /\ UNCHANGED <<store, clock, envVars, procVars>>

NextCron == HandleRequest

SpecCron == Init /\ [][NextCron]_vars

----------------------------------------------------------------------------
(* The stores of a day's state: the JSON file and the daily_posts table *)

\* the value of a property an object does not have
Undefined == "undefined"

\* obj.f
Field(obj, f) == IF f \in DOMAIN obj THEN obj[f] ELSE Undefined

\* v ?? d
Coalesce(v, d) == IF v \in {Undefined, NoText} THEN d ELSE v

\* the fields of a post of a DailyState
PostFields ==
    {"index", "character", "acdbId", "series", "scheduledTime", "previewText",
     "imageUrl", "status", "postedAt", "tweetId", "tweetUrl", "error"}

\* the post of slot index as the program may hold it
DocPost(index, acdbId, previewText, imageUrl, status) ==
    [index |-> index, character |-> "A", acdbId |-> acdbId, series |-> "S",
     scheduledTime |-> formatTime(POST_TIMES, index),
     previewText |-> previewText, imageUrl |-> imageUrl, status |-> status,
     postedAt |-> IF status = "posted" THEN "2026-01-01T12:00:00Z" ELSE NoText,
     tweetId |-> IF status = "posted" THEN "1900" ELSE NoText,
     tweetUrl |-> IF status = "posted" THEN "https://twitter.com/i/status/1900" ELSE NoText,
     error |-> IF status = "error" THEN "E403" ELSE NoText]

DocPosts(index) ==
    {DocPost(index, acdbId, previewText, imageUrl, status) :
        acdbId \in {NoText, "101"}, previewText \in {Undefined, "text"},
        imageUrl \in {NoText, "url"}, status \in {"pending", "posted", "error"}}

\* the states of a day: the post at position k has index k - 1
Docs ==
    UNION {{[date |-> "2026-01-01", posts |-> posts] :
              posts \in {ps \in [1..n -> UNION {DocPosts(i) : i \in 0..(n - 1)}] :
                            \A k \in 1..n : ps[k].index = k - 1}} :
           n \in 0..MaxDocPosts}

\* JSON.stringify of an object: the properties that are not undefined (index
\* is a number in every state of the program)
stringify(obj) ==
    [f \in {g \in DOMAIN obj : g = "index" \/ obj[g] # Undefined} |-> obj[f]]

\* saveState then loadState: the file holds JSON.stringify(state) and
\* JSON.parse gives the objects back
saveAndLoadState(state) ==
    [exists |-> TRUE, date |-> state.date,
     posts |-> [k \in 1..Len(state.posts) |-> stringify(state.posts[k])]]

\* saveDayDoc: one row of daily_posts per post
Rows(doc) ==
    [k \in 1..Len(doc.posts) |->
        LET p == doc.posts[k] IN
        [date |-> doc.date,
         post_index |-> p.index,
         character |-> Coalesce(Field(p, "character"), ""),
         series |-> Coalesce(Field(p, "series"), ""),
         scheduled_time |-> Coalesce(Field(p, "scheduledTime"), ""),
         preview_text |-> Coalesce(Field(p, "previewText"), ""),
         image_url |-> Coalesce(Field(p, "imageUrl"), NoText),
         status |-> Coalesce(Field(p, "status"), "pending"),
         posted_at |-> Coalesce(Field(p, "postedAt"), NoText),
         tweet_url |-> Coalesce(Field(p, "tweetUrl"), NoText),
         error |-> Coalesce(Field(p, "error"), NoText)]]

\* saveDayDoc then getDayDoc: null when the date has no row
saveAndGetDayDoc(doc) ==
    LET rows == Rows(doc) IN
    IF Len(rows) = 0 THEN [exists |-> FALSE, date |-> doc.date, posts |-> <<>>]
    ELSE [exists |-> TRUE, date |-> doc.date,
          posts |-> [k \in 1..Len(rows) |->
              LET r == rows[k] IN
              [index |-> r.post_index, character |-> r.character, series |-> r.series,
               scheduledTime |-> Coalesce(r.scheduled_time, ""),
               previewText |-> Coalesce(r.preview_text, ""),
               imageUrl |-> Coalesce(r.image_url, NoText),
               status |-> Coalesce(r.status, "pending"),
               postedAt |-> Coalesce(r.posted_at, NoText),
               tweetUrl |-> Coalesce(r.tweet_url, NoText),
               error |-> Coalesce(r.error, NoText)]]]

\* a state is saved and loaded again through one of the stores
SaveAndLoad ==
    /\ last = NoCall
    /\ \E doc \in Docs, kind \in {"json", "table"} :
        last' = [op |-> "saveAndLoad", index |-> 0, result |-> FALSE,
                 kind |-> kind, doc |-> doc,
                 loaded |-> IF kind = "json" THEN saveAndLoadState(doc)
                            ELSE saveAndGetDayDoc(doc)]
    /\ UNCHANGED <<store, clock, envVars, procVars>>

NextStore == SaveAndLoad

SpecStore == Init /\ [][NextStore]_vars

----------------------------------------------------------------------------
(* state.js: writes of the state file in flight at the same time *)

Writers == {1, 2}

IdleWriter == [pc |-> "idle", kind |-> "none", slot |-> 0, state |-> NoState, writes |-> 0]

\* the first preparation of the day writes the state file
FirstPreparation ==
    /\ last = NoCall
    /\ \E posts \in PreparedLists :
        /\ Len(posts) = Len(Birthdays)
        /\ store' = initializeTodaysState(NoState, posts)
        /\ last' = [op |-> "writes", index |-> 0, result |-> FALSE,
                    posts |-> posts, writer |-> [w \in Writers |-> IdleWriter],
                    sent |-> {}]
    /\ UNCHANGED <<clock, envVars, procVars>>

\* the publish attempt of writer w for its slot, which isPostAlreadySent does
\* not report as sent, ends: loadState of markPostAsSent or markPostAsFailed
LoadForMark(w) ==
    /\ last.op = "writes"
    /\ last.writer[w].pc = "idle" /\ last.writer[w].writes < MaxWrites
    /\ ~isPostAlreadySent(loadState(store, TRUE), w - 1)
    /\ \E kind \in {"markPostAsSent", "markPostAsFailed"} :
        last' = [last EXCEPT !.writer[w] =
                    [pc |-> "save", kind |-> kind, slot |-> w - 1,
                     state |-> loadState(store, TRUE), writes |-> @.writes + 1]]
    /\ UNCHANGED <<store, clock, envVars, procVars>>

\* initializeTodaysState of a later preparation by writer w: loadState and
\* mergeState up to its saveState(newState), which is not awaited
LoadForMerge(w) ==
    /\ last.op = "writes"
    /\ last.writer[w].pc = "idle" /\ last.writer[w].writes < MaxWrites
    /\ last' = [last EXCEPT !.writer[w] =
                   [pc |-> "save", kind |-> "mergeState", slot |-> w - 1,
                    state |-> mergeState(loadState(store, TRUE), last.posts),
                    writes |-> @.writes + 1]]
    /\ UNCHANGED <<store, clock, envVars, procVars>>

\* saveState of writer w: the file is replaced by the state the writer holds
SaveWrite(w) ==
    LET wr == last.writer[w] IN
    /\ last.op = "writes"
    /\ wr.pc = "save"
    /\ store' = CASE wr.kind = "markPostAsSent" ->
                       markPostAsSent(wr.state, wr.slot, w, TweetUrl(w), clock)
                  [] wr.kind = "markPostAsFailed" ->
                       markPostAsFailed(wr.state, wr.slot, "E403", clock)
                  [] OTHER -> wr.state
    /\ last' = [last EXCEPT !.writer[w].pc = "idle", !.writer[w].state = NoState,
                            !.sent = IF wr.kind = "markPostAsSent"
                                     THEN @ \cup {wr.slot} ELSE @]
    /\ UNCHANGED <<clock, envVars, procVars>>

NextWrites ==
    \/ FirstPreparation
    \/ \E w \in Writers : LoadForMark(w) \/ LoadForMerge(w) \/ SaveWrite(w)

SpecWrites == Init /\ [][NextWrites]_vars

----------------------------------------------------------------------------
(* scheduler.js: the dates of the jobs of schedulePosts *)

\* the days a process is followed over, the day of the preparation first
MaxDays == 2

\* a Date: a day and the clock value within it
DateOf(day, time) == [day |-> day, time |-> time]

NotAfter(d, e) == d.day < e.day \/ (d.day = e.day /\ d.time <= e.time)

\* getNextTimeInTimezone: today at the time of the slot, and tomorrow at
\* that time when it `has passed today'
getNextTimeInTimezone(slot, now) ==
    LET targetTime == DateOf(now.day, SlotClock(slot)) IN
    IF NotAfter(targetTime, now)
    THEN [targetTime EXCEPT !.day = @ + 1]
    ELSE targetTime

\* schedulePosts with the date of each job
schedulePostsAt(posts, now) ==
    {[slot |-> k - 1, imagePath |-> posts[k].imagePath,
      scheduledTime |-> getNextTimeInTimezone(k - 1, now)] :
        k \in {j \in 1..Len(posts) :
                 /\ j - 1 < Len(POST_TIMES)
                 /\ ~NotAfter(getNextTimeInTimezone(j - 1, now), now)}}

\* the lists preparePostsForToday can hand to schedulePosts: scraped, or
\* recovered from the state of the day with some slots already 'posted'
RestartLists ==
    LET first == preparePostsWithImages(Birthdays, [k \in 1..Len(Birthdays) |-> "anilist"])
        fresh == initializeTodaysState(NoState, first)
        sent1 == markPostAsSent(fresh, 0, 1, TweetUrl(1), 1)
    IN {preparePostsWithImages(Birthdays, choice) : choice \in ImageChoices}
       \cup {recoverPostsFromState(st, choice) :
                st \in {fresh, sent1}, choice \in ImageChoices}

\* a process starts on day 1 at some time of the day, prepares the posts of
\* that date and registers their jobs
StartAt ==
    /\ last = NoCall
    /\ \E time \in 1..LastClock, posts \in RestartLists :
          LET now == DateOf(1, time)
          IN last' = [op |-> "schedulePosts", date |-> 1, now |-> now,
                      jobs |-> schedulePostsAt(posts, now), started |-> {}]
    /\ UNCHANGED <<store, clock, envVars, procVars>>

\* time passes in the running process, into the next day after the last slot
Later ==
    /\ last.op = "schedulePosts"
    /\ \A j \in last.jobs : ~NotAfter(j.scheduledTime, last.now)
    /\ last.now.time < LastClock \/ last.now.day < MaxDays
    /\ last' = [last EXCEPT !.now = IF last.now.time < LastClock
                                    THEN DateOf(last.now.day, last.now.time + 1)
                                    ELSE DateOf(last.now.day + 1, 1)]
    /\ UNCHANGED <<store, clock, envVars, procVars>>

\* a job fires at its date: the callback starts postSingleBirthday for its post
JobFires ==
    /\ last.op = "schedulePosts"
    /\ \E j \in last.jobs :
          /\ NotAfter(j.scheduledTime, last.now)
          /\ last' = [last EXCEPT !.jobs = @ \ {j},
                                  !.started = @ \cup {[slot |-> j.slot,
                                                       imagePath |-> j.imagePath,
                                                       day |-> last.now.day]}]
    /\ UNCHANGED <<store, clock, envVars, procVars>>

NextDates == StartAt \/ Later \/ JobFires

SpecDates == Init /\ [][NextDates]_vars

----------------------------------------------------------------------------
(* index.js: main() and the manual triggers *)

\* the argument after the script name, if any
Arguments == {NoText, "--now", "-n", "--dry"}

\* values of the environment variables main() reads; null is `not set'
TriggerValues == {NoText, "", "0", "1", "4", "abc"}

RailwayValues == {NoText, "", "production"}

AllowValues == {NoText, "true", "false", "TRUE", "1"}

\* the hour in Argentina at the start
Hours == {7, 8, 13, 21, 22}

\* main() after the dashboard server has started. manual is the manual
\* publication it runs, dailyPrep whether scheduleDailyPrep is called,
\* prepared whether preparePostsForToday runs at the start, exit the code of
\* process.exit; count is the length of todaysPosts after a preparation
main(argument, TRIGGER_POST_INDEX, RAILWAY_ENVIRONMENT, ALLOW_MANUAL_POSTS, argentinaHour, count) ==
    LET runNow == argument \in {"--now", "-n"}
        hasTrigger == Truthy(TRIGGER_POST_INDEX)
        triggerPostIndex == parseInt(TRIGGER_POST_INDEX)
        isProduction == Truthy(RAILWAY_ENVIRONMENT)
        allowManualPosts == ALLOW_MANUAL_POSTS = "true"
        nothing == [manual |-> "none", dailyPrep |-> FALSE, prepared |-> FALSE,
                    exit |-> "none"]
    IN IF runNow
       THEN IF isProduction /\ ~allowManualPosts
            THEN nothing
            ELSE [nothing EXCEPT !.manual = "prepareAndPostAll", !.prepared = TRUE]
       ELSE IF hasTrigger
       THEN IF isProduction /\ ~allowManualPosts
            THEN nothing
            ELSE IF ~triggerPostIndex.nan /\ count > triggerPostIndex.value
            THEN [nothing EXCEPT !.manual = "postSingleBirthday", !.prepared = TRUE,
                                 !.exit = "0"]
            ELSE [nothing EXCEPT !.prepared = TRUE, !.exit = "1"]
       ELSE [nothing EXCEPT !.dailyPrep = TRUE,
                            !.prepared = (argentinaHour >= 8 /\ argentinaHour < 22)]

\* a process starts: main() runs with its arguments and environment
Main ==
    /\ last = NoCall
    /\ \E argument \in Arguments, trigger \in TriggerValues,
          railway \in RailwayValues, allow \in AllowValues,
          argentinaHour \in Hours, count \in 0..Len(Birthdays) :
          last' = [op |-> "main", argument |-> argument,
                   TRIGGER_POST_INDEX |-> trigger,
                   RAILWAY_ENVIRONMENT |-> railway,
                   ALLOW_MANUAL_POSTS |-> allow,
                   prepAgain |-> FALSE,
                   result |-> main(argument, trigger, railway, allow,
                                   argentinaHour, count)]
    /\ UNCHANGED <<store, clock, envVars, procVars>>

\* PREP_TIME comes in a process that lives on: the job of scheduleDailyPrep,
\* if there is one, runs preparePostsForToday
PrepTime ==
    /\ last.op = "main"
    /\ last.result.exit = "none"
    /\ ~last.prepAgain
    /\ last' = [last EXCEPT !.prepAgain = TRUE,
                            !.result.prepared = @ \/ last.result.dailyPrep]
    /\ UNCHANGED <<store, clock, envVars, procVars>>

NextMain == Main \/ PrepTime

SpecMain == Init /\ [][NextMain]_vars

----------------------------------------------------------------------------
(* jikan.js and upgrade-preview-image.js: normalizeName on any value *)

\* the longest text normalizeName is applied to
MaxNameLen == 4

\* the characters of the texts: "%" is written for U+016B (u with macron)
\* and "^" for U+0304 (combining macron), which a string of the model
\* cannot hold
NameChars == {"A", "a", "u", "%", "^", ",", " "}

RECURSIVE TextsUpTo(_)
TextsUpTo(n) ==
    IF n = 0 THEN {""}
    ELSE LET shorter == TextsUpTo(n - 1) IN
         shorter \cup {t \o c : t \in shorter, c \in NameChars}

\* the values normalizeName can be called with: strings and values of
\* other types
NameValues ==
    {[type |-> "string", text |-> t] : t \in TextsUpTo(MaxNameLen)}
    \cup {[type |-> ty, text |-> ""] : ty \in {"undefined", "object", "number"}}

\* .normalize('NFD'): a letter with a macron becomes the letter and the mark
RECURSIVE normalizeNFD(_)
normalizeNFD(s) ==
    IF Len(s) = 0 THEN ""
    ELSE (IF CharAt(s, 1) = "%" THEN "u^" ELSE CharAt(s, 1))
         \o normalizeNFD(SubSeq(s, 2, Len(s)))

\* .replace(/[\u0300-\u036f]/g, ''): the combining marks go
RECURSIVE StripMarks(_)
StripMarks(s) ==
    IF Len(s) = 0 THEN ""
    ELSE (IF CharAt(s, 1) = "^" THEN "" ELSE CharAt(s, 1))
         \o StripMarks(SubSeq(s, 2, Len(s)))

\* normalizeName of a file on a value: the one of jikan.js replaces the
\* commas, the copy in scripts/upgrade-preview-image.js has no such step
Normalizers == {"jikan.js", "upgrade-preview-image.js"}

normalizeNameIn(file, v) ==
    IF v.type # "string" \/ v.text = ""
    THEN ""
    ELSE LET t == CollapseSpaces(StripMarks(normalizeNFD(toLowerCase(v.text)))) IN
         CollapseRepeats(trim(IF file = "jikan.js" THEN ReplaceCommas(t) ELSE t))

\* normalizeName is called on a value, and once more on what it returned
NormalizeValue ==
    /\ last = NoCall
    /\ \E file \in Normalizers, v \in NameValues :
          LET once == normalizeNameIn(file, v) IN
          last' = [op |-> "normalizeName", file |-> file, value |-> v,
                   result |-> once,
                   again |-> normalizeNameIn(file, [type |-> "string", text |-> once])]
    /\ UNCHANGED <<store, clock, envVars, procVars>>

NextNormalize == NormalizeValue

SpecNormalize == Init /\ [][NextNormalize]_vars

----------------------------------------------------------------------------
(* Claims about the exported functions of state.js *)

Posted(state, k) == k \in 1..Len(state.posts) /\ state.posts[k].status = "posted"

\* C3: once the stored status of a slot is 'posted', no call of
\* markPostAsFailed or markPostAsSent changes it to 'error' or 'pending'.
C3_PostedIsTerminal ==
    [][ last'.op \in {"markPostAsSent", "markPostAsFailed"}
        => \A k \in 1..Len(store.posts) : Posted(store, k) => Posted(store', k) ]_vars

\* C4: initializeTodaysState over an existing state leaves the status,
\* postedAt, tweetId and tweetUrl of every 'posted' slot unchanged,
\* whatever the freshly prepared list is.
C4_MergeKeepsPosted ==
    [][ (last'.op = "initializeTodaysState" /\ store.exists)
        => \A k \in 1..Len(store.posts) :
              Posted(store, k) =>
                 /\ Posted(store', k)
                 /\ store'.posts[k].postedAt = store.posts[k].postedAt
                 /\ store'.posts[k].tweetId = store.posts[k].tweetId
                 /\ store'.posts[k].tweetUrl = store.posts[k].tweetUrl ]_vars

\* C5: a second markPostAsSent on a slot that is already 'posted' leaves
\* the stored record as the first call left it, also with another tweet id
\* or at a later time.
C5_MarkSentIdempotent ==
    [][ (last'.op = "markPostAsSent" /\ isPostAlreadySent(store, last'.index))
        => store' = store ]_vars

\* C8: canRecoverFromState is true exactly when a state exists, it has at
\* least one post and every post has a non-empty acdbId.
C8_CanRecoverIffEveryPostHasId ==
    last.op = "canRecoverFromState" =>
        (last.result <=>
            /\ store.exists
            /\ Len(store.posts) >= 1
            /\ \A k \in 1..Len(store.posts) :
                  store.posts[k].acdbId # NoText /\ store.posts[k].acdbId # "")

\* C8 witness: asked about a state of two posts of which exactly one has an
\* acdbId, canRecoverFromState answered false.
C8_Witness ==
    /\ last.op = "canRecoverFromState"
    /\ ~last.result
    /\ Len(store.posts) = 2
    /\ store.posts[1].acdbId = "101"
    /\ store.posts[2].acdbId = ""

\* C10: after a merge into an existing state every slot that was not
\* 'posted' holds the fresh character and series with status 'pending' and
\* no postedAt, tweetId or tweetUrl.
C10_MergeResetsUnposted ==
    [][ (last'.op = "initializeTodaysState" /\ store.exists)
        => \E posts \in PreparedLists :
              /\ store' = initializeTodaysState(store, posts)
              /\ \A k \in 1..Len(posts) :
                    ~Posted(store, k) =>
                       /\ store'.posts[k].character = posts[k].name
                       /\ store'.posts[k].series = posts[k].series
                       /\ store'.posts[k].status = "pending"
                       /\ store'.posts[k].postedAt = NoValue
                       /\ store'.posts[k].tweetId = NoValue
                       /\ store'.posts[k].tweetUrl = NoText ]_vars

\* C11: in every persisted state a post with status 'posted' has a postedAt,
\* a tweetId and a tweetUrl that are not null.
C11_PostedHasItsFields ==
    \A k \in 1..Len(store.posts) :
        Posted(store, k) =>
            /\ store.posts[k].postedAt # NoValue
            /\ store.posts[k].tweetId # NoValue
            /\ store.posts[k].tweetUrl # NoText

\* C11 witness: a 'posted' post that a merge has kept, next to a post the
\* merge has made.
C11_Witness ==
    /\ last.op = "initializeTodaysState"
    /\ last.result
    /\ Len(store.posts) = 2
    /\ Posted(store, 1)
    /\ store.posts[2].status = "pending"

\* C14: markPostAsFailed(i, reason) leaves every field of slot i other than
\* status, error and lastAttempt, and every other slot, as they were; with no
\* state or no slot i the state is left as it was.
C14_MarkFailedFrame ==
    [][ last'.op = "markPostAsFailed"
        => LET i == last'.index + 1 IN
           IF store.exists /\ i \in 1..Len(store.posts)
           THEN /\ store'.exists
                /\ Len(store'.posts) = Len(store.posts)
                /\ \A k \in 1..Len(store.posts) : k # i => store'.posts[k] = store.posts[k]
                /\ store'.posts[i].index = store.posts[i].index
                /\ store'.posts[i].acdbId = store.posts[i].acdbId
                /\ store'.posts[i].character = store.posts[i].character
                /\ store'.posts[i].series = store.posts[i].series
                /\ store'.posts[i].scheduledTime = store.posts[i].scheduledTime
                /\ store'.posts[i].postedAt = store.posts[i].postedAt
                /\ store'.posts[i].tweetId = store.posts[i].tweetId
                /\ store'.posts[i].tweetUrl = store.posts[i].tweetUrl
           ELSE store' = store ]_vars

\* C14 witness: markPostAsFailed(0, reason) has marked the first of two
\* posts, the second being 'posted'.
C14_Witness ==
    /\ last.op = "markPostAsFailed"
    /\ last.index = 0
    /\ Len(store.posts) = 2
    /\ store.posts[1].status = "error"
    /\ store.posts[1].error = "E403"
    /\ Posted(store, 2)

----------------------------------------------------------------------------
(* Claims about the processes *)

InService(a) == attempts[a].pc \in {"uploadMedia", "postTweet"}

\* C1: with operations one after the other and a working state store, the
\* posting service accepts at most one post per slot.
C1_AtMostOncePerSlot == \A s \in Slots : Accepted(s) <= 1

\* C2: when publish attempts of one slot interleave, the posting service
\* still accepts at most one post of those attempts that asked
\* isPostAlreadySent about the slot.
C2_CheckedAtMostOnce == \A s \in Slots : tweets[s].checked <= 1

\* C6: every attempt that is calling the posting service (uploadMedia,
\* postTweet) has asked isPostAlreadySent before, the post-now script too.
C6_CheckBeforeService == \A a \in AttemptIds : InService(a) => attempts[a].hasIndex

\* C7: no attempt is calling the posting service for a slot whose state
\* file was there but could not be read when the attempt asked
\* isPostAlreadySent.
C7_UnreadableAborts == \A a \in AttemptIds : InService(a) => ~attempts[a].readFailed

\* a step in which the long-running process runs preparePostsForToday
BotPrepares ==
    \/ botMode = "down" /\ botMode' # "down"
    \/ prepDue /\ ~prepDue' /\ botMode' # "down"

\* C9: when preparePostsForToday runs and canRecoverFromState is true, the
\* list is recovered and not scraped, the state file is not written,
\* todaysPosts has one entry per stored post in stored order, the entries of
\* 'posted' slots have no image, and no attempt calls the posting service
\* for an entry without image.
C9_RecoveryKeepsTheList ==
    /\ [][ (canRecoverFromState(loadState(store, readOk)) /\ BotPrepares)
            => /\ lastPrep' = "recovered"
               /\ store' = store
               /\ Len(todaysPosts') = Len(store.posts)
               /\ \A k \in 1..Len(store.posts) :
                     /\ todaysPosts'[k].acdbId = store.posts[k].acdbId
                     /\ Posted(store, k) => todaysPosts'[k].imagePath = NoText ]_vars
    /\ [][ (canRecoverFromState(loadState(store, readOk)) /\ manualRuns' # manualRuns)
            => store' = store ]_vars
    /\ [](\A a \in AttemptIds :
             attempts[a].pc # "idle" => attempts[a].imagePath # NoText)

\* C9 witness: the process has recovered a list of two posts of which the
\* first is stored as 'posted' and has no image, the second has one.
C9_Witness ==
    /\ lastPrep = "recovered"
    /\ Len(todaysPosts) = 2
    /\ Len(store.posts) = 2
    /\ Posted(store, 1)
    /\ todaysPosts[1].imagePath = NoText
    /\ todaysPosts[2].imagePath # NoText

\* a step in which markPostAsFailed of attempt a returns
FailureMarked(a) ==
    /\ attempts[a].pc = "markPostAsFailed"
    /\ attempts'[a].pc = "idle"
    /\ botMode' = botMode

\* C12: when the posting service has rejected or thrown in an attempt that
\* passes an index, for a slot that is not 'posted', the slot is stored as
\* 'error' with the service's message once the attempt has marked it.
C12_FailureIsRecorded ==
    [][ \A a \in AttemptIds :
           (FailureMarked(a) /\ ~isPostAlreadySent(store, attempts[a].slot))
           => /\ HasPost(store', attempts[a].slot)
              /\ store'.posts[attempts[a].slot + 1].status = "error"
              /\ store'.posts[attempts[a].slot + 1].error = attempts[a].error ]_vars

\* C13: no job of the scheduler starts a publish attempt for a slot that is
\* stored as 'error'.
C13_NoScheduledRetry ==
    [][ \A a \in AttemptIds :
           (attempts[a].pc = "idle" /\ attempts'[a].pc = "uploadMedia"
               /\ attempts'[a].via = "job")
           => ~(HasPost(store, attempts'[a].slot)
                  /\ store.posts[attempts'[a].slot + 1].status = "error") ]_vars

----------------------------------------------------------------------------
(* Claims about the resolution of an image *)

Resolved == last.op = "resolveImageForCharacter"

\* the provider a source label stands for
Provider(source) == IF source = "thumb" THEN "acdb_thumb" ELSE source

\* C15: from the same provider responses, the preparation run and the
\* post-now run select the same image from the same provider, whatever the
\* order the list providers answer in.
C15_SameImageOnEveryPath ==
    Resolved
    => /\ last.prepared.url = last.resolved.url
       /\ Provider(last.prepared.source) = Provider(last.resolved.source)

\* place of a provider in the order of priority
ProviderRank(source) ==
    CASE source = "anilist" -> 1
      [] source = "safebooru" -> 2
      [] source = "google" -> 3
      [] source = "acdb" -> 4
      [] source = "mal" -> 5
      [] source = "acdb_thumb" -> 6

\* the candidates of a resolution: every url a consulted provider offers
Candidates(r) ==
    {Try("anilist", "anilist") : x \in {r.anilist} \ {"none"}}
    \cup {Try("safebooru", r.safebooru[k]) : k \in 1..Len(r.safebooru)}
    \cup {Try("google", r.google[k]) : k \in IF r.googleConfigured THEN 1..Len(r.google) ELSE {}}
    \cup {Try("acdb", "image") : x \in IF HasAcdb(r) THEN {r.image} \cap {"ok", "bad"} ELSE {}}
    \cup {Try("mal", "image_large") : x \in {r.image_large} \ {"none"}}
    \cup {Try("mal", "image") : x \in IF r.image_large = "none" THEN {r.malImage} \ {"none"} ELSE {}}
    \cup {Try("acdb_thumb", "thumbnail") : x \in IF HasAcdb(r) THEN {r.thumbnail} \cap {"ok", "bad"} ELSE {}}

\* the candidate downloads and its file validates
Validates(r, c) ==
    CASE c.source = "anilist" -> r.anilist = "ok"
      [] c.source \in {"safebooru", "google"} -> c.url \in r.validUrls
      [] c.source = "acdb" -> r.image = "ok"
      [] c.source = "mal" -> IF c.url = "image_large" THEN r.image_large = "ok" ELSE r.malImage = "ok"
      [] c.source = "acdb_thumb" -> r.thumbnail = "ok"

\* how often a provider offers the candidate
Offered(r, c) ==
    CASE c.source = "safebooru" -> Cardinality({k \in 1..Len(r.safebooru) : r.safebooru[k] = c.url})
      [] c.source = "google" -> Cardinality({k \in 1..Len(r.google) : r.google[k] = c.url})
      [] OTHER -> 1

\* C16: the resolver tries the candidates in the order of the providers
\* Anilist, Safebooru, Google (if configured), ACDB image, MAL (the large image
\* if there is one, else the default one), ACDB thumbnail; a candidate is tried
\* only after every candidate of every earlier provider failed, none is tried
\* more often than it is offered, the first one that validates is returned with
\* its provider's name, and the result is {null, null} exactly when none does.
C16_FixedProviderOrder ==
    Resolved =>
        LET r == last.responses
            res == last.resolved
            tried == res.tried
            n == Len(tried)
        IN /\ \A k \in 1..n : tried[k] \in Candidates(r)
           /\ \A j, k \in 1..n :
                  j < k => ProviderRank(tried[j].source) <= ProviderRank(tried[k].source)
           /\ \A k \in 1..n : \A c \in Candidates(r) :
                  ProviderRank(c.source) < ProviderRank(tried[k].source)
                  => \E j \in 1..(k - 1) : tried[j] = c /\ ~Validates(r, c)
           /\ \A k \in 1..(n - 1) : ~Validates(r, tried[k])
           /\ \A c \in Candidates(r) :
                  Cardinality({k \in 1..n : tried[k] = c}) <= Offered(r, c)
           /\ IF \E c \in Candidates(r) : Validates(r, c)
              THEN /\ n > 0
                   /\ tried[n] = Try(res.source, res.url)
                   /\ Validates(r, tried[n])
              ELSE /\ res.source = NoText /\ res.url = NoText
                   /\ \A c \in Candidates(r) :
                          Cardinality({k \in 1..n : tried[k] = c}) = Offered(r, c)

\* every provider was consulted and the last one had the image
C16_Witness ==
    /\ Resolved
    /\ last.resolved.source = "acdb_thumb"
    /\ last.responses.googleConfigured
    /\ Len(last.resolved.tried) = 2 * MaxCandidates + 4

\* the lists with the same urls as s, in any order
PermutationsOf(s) ==
    {t \in [1..Len(s) -> ImageUrls] :
        \A u \in ImageUrls : Cardinality({k \in 1..Len(s) : t[k] = u})
                               = Cardinality({k \in 1..Len(s) : s[k] = u})}

\* C17: the candidates of Safebooru and of Google are tried in ascending
\* order of their url, so that the resolver selects the same candidate for
\* every order the provider answers them in.
C17_OrderOfAnswerIsIrrelevant ==
    Resolved =>
        LET r == last.responses
            tried == last.resolved.tried
        IN /\ \A j, k \in 1..Len(tried) :
                  (j < k /\ tried[j].source = tried[k].source
                         /\ tried[k].source \in {"safebooru", "google"})
                  => localeCompare(tried[j].url, tried[k].url) <= 0
           /\ \A p \in PermutationsOf(r.safebooru) : \A q \in PermutationsOf(r.google) :
                  LET other == resolveImageForCharacter([r EXCEPT !.safebooru = p, !.google = q],
                                                      HasAcdb(r))
                  IN other.source = last.resolved.source /\ other.url = last.resolved.url

\* Safebooru answered "b.jpg" before "a.jpg", both valid: "a.jpg" is selected
C17_Witness ==
    /\ Resolved
    /\ last.responses.safebooru = <<"b.jpg", "a.jpg">>
    /\ last.responses.validUrls = ImageUrls
    /\ last.resolved.tried = <<Try("safebooru", "a.jpg")>>
    /\ last.resolved.url = "a.jpg"

----------------------------------------------------------------------------
(* Claims about the slots of the characters *)

\* place of a character in the favorites order of the day's birthdays
FavoritesRank(acdbId) ==
    CHOOSE j \in 1..Len(Birthdays) : Birthdays[j].id = acdbId

\* C18: a character whose image could not be resolved gets no post, and
\* every other character keeps the slot of its own favorites rank: every post
\* of the state stands at the slot of its character's rank.
C18_OwnSlotKept ==
    \A k \in 1..Len(store.posts) :
        store.posts[k].index = FavoritesRank(store.posts[k].acdbId) - 1

----------------------------------------------------------------------------
(* Claims about the validation of an image *)

Validated == last.op = "validateImageFile"

\* the file is a file of at least 25,000 bytes and at least 280x280 px
PassedGates(file) ==
    /\ file.path /\ file.isFile /\ file.readable
    /\ file.size >= 25000 /\ file.width >= 280 /\ file.height >= 280

\* C19: validateImageFile applies its gates in order and stops at the first
\* failure: a file below 25,000 bytes is rejected without its dimensions being
\* read, a larger one with a width or height below 280 is rejected, content
\* recognition runs only for files that passed both, and without an API key
\* every file that passed both is valid.
C19_GatesInOrder ==
    Validated =>
        LET file == last.file
            v == last.verdict
        IN /\ (file.path /\ file.isFile /\ file.size < 25000)
              => (~v.valid /\ ~v.read /\ ~v.recognition)
           /\ (file.path /\ file.isFile /\ file.size >= 25000 /\ file.readable
                 /\ (file.width < 280 \/ file.height < 280))
              => (~v.valid /\ v.read /\ ~v.recognition)
           /\ v.recognition => PassedGates(file)
           /\ v.valid => PassedGates(file)
           /\ (PassedGates(file) /\ ~last.apiKey) => v.valid
           /\ (file.size = 10000 /\ file.width = 100 /\ file.height = 100) => ~v.valid

\* 50 KB at 400x400 passes without an API key
C19_Witness ==
    /\ Validated /\ ~last.apiKey
    /\ last.file.size = 50000 /\ last.file.width = 400 /\ last.file.height = 400
    /\ last.verdict.valid /\ last.verdict.read

\* the labels and entities of the answer, as one lower-case text
Recognized == toLowerCase(join(last.response.texts))

\* the words of the sequence that the answer contains, by position
Contained(words) == {k \in 1..Len(words) : includes(Recognized, words[k])}

\* a token of a name that is searched for: at least two characters, not a number
Searched(w) == Len(w) >= 2 /\ ~AllDigits(w)

\* the rule of the recognition over the given words of the two names
RecognitionRule(charWords, seriesWords) ==
    (Validated /\ last.apiKey /\ last.response.kind = "annotated" /\ PassedGates(last.file))
    => (last.verdict.valid
        <=> /\ Cardinality(Contained(charWords)) >= 1
            /\ \/ Cardinality(Contained(seriesWords)) >= 1
               \/ Cardinality(Contained(charWords)) >= 2)

\* C20: with the Vision API configured and answering with annotations, a file
\* that passed the size and dimension gates is valid exactly when the answer
\* contains at least one searched token of the character name and, besides, a
\* searched token of the series name or a second one of the character name;
\* searched are the tokens of at least two characters that are no numbers.
C20_RecognitionRule ==
    Validated => RecognitionRule(SelectSeq(Tokens(last.characterName), Searched),
                                 SelectSeq(Tokens(last.series), Searched))

\* C20 as stated: the rule over every token of the names
C20_RuleOverEveryToken ==
    Validated => RecognitionRule(Tokens(last.characterName), Tokens(last.series))

\* valid by two tokens of the character name, none of the series
C20_Witness ==
    /\ Validated /\ last.apiKey /\ PassedGates(last.file)
    /\ last.characterName = "Suguru Geto" /\ last.series = "Death Note"
    /\ last.response = [kind |-> "annotated", texts |-> <<"Drink", "Suguru Geto">>]
    /\ last.verdict.valid

\* the answer satisfies the rule of the character and the series
RuleSatisfied ==
    LET charWords == SelectSeq(Tokens(last.characterName), Searched)
        seriesWords == SelectSeq(Tokens(last.series), Searched)
    IN /\ Cardinality(Contained(charWords)) >= 1
       /\ \/ Cardinality(Contained(seriesWords)) >= 1
          \/ Cardinality(Contained(charWords)) >= 2

\* C21: for a file that passed the gates with the Vision API configured, a
\* request that fails (error, timeout, unreachable) leaves the file valid, and
\* an answer whose labels do not satisfy the rule makes it invalid, so that
\* tryDownload gives the candidate up.
C21_FailOpenFailClosed ==
    (Validated /\ last.apiKey /\ PassedGates(last.file))
    => /\ last.response.kind = "error" => last.verdict.valid
       /\ (last.response.kind = "annotated" /\ ~RuleSatisfied)
          => (~last.verdict.valid /\ last.verdict.reason = "vision")

\* the request failed and the file is valid
C21_Witness ==
    /\ Validated /\ last.apiKey /\ PassedGates(last.file)
    /\ last.response.kind = "error"
    /\ last.verdict.valid

----------------------------------------------------------------------------
(* Claims about the search of a character in the catalog *)

SearchReturned == last.op = "searchCharacter"

\* a title of the character's series list holds a keyword of the guess
InGuessedSeries(animeName, id) ==
    /\ animeName # NoText
    /\ \E k \in 1..Len(Catalog[id].anime) : last.hit[animeName][Catalog[id].anime[k]]

\* C22: a returned record whose name is neither an exact nor a partial match
\* (the first raw result or the result of the combined search), with a series
\* guess of which no token is in the record's series titles, has no about text.
C22_UnverifiedHasNoAbout ==
    (/\ SearchReturned /\ last.malChar.found
     /\ last.q.animeName # NoText
     /\ last.tier[last.q.characterName][last.malChar.mal_id] = 0
     /\ ~InGuessedSeries(last.q.animeName, last.malChar.mal_id))
    => last.malChar.about = NoText

\* C23: "Suguru Geto" guessed as "Bleach", no roster member matching, the
\* global search answering the record of "Jujutsu Kaisen": that record is
\* returned without about text and the series of the post is "Jujutsu Kaisen".
C23_WrongGuessIsCorrected ==
    (/\ SearchReturned
     /\ last.q.characterName = "Suguru Geto" /\ last.q.animeName = "Bleach"
     /\ last.q.animeFound
     /\ ScanRoster(last.q.characterName, last.q.characters, 1) = NoId
     /\ last.q.data = <<1>> /\ last.q.fullOk2)
    => /\ last.malChar.mal_id = 1
       /\ last.malChar.about = NoText
       /\ last.post.series = "Jujutsu Kaisen"

\* candidate c is to be chosen over candidate d: a higher name tier, or the
\* same tier with the guessed series against without
Outranks(characterName, animeName, c, d) ==
    \/ last.tier[characterName][c] > last.tier[characterName][d]
    \/ /\ last.tier[characterName][c] = last.tier[characterName][d]
       /\ InGuessedSeries(animeName, c) /\ ~InGuessedSeries(animeName, d)

\* C24: the candidate chosen in the roster scan or in the global search is
\* outranked by no other candidate of the same list, whatever the order of
\* the list.
C24_BestCandidateChosen ==
    SearchReturned =>
        LET q == last.q
            listed == IF last.malChar.via = "roster" THEN q.characters
                      ELSE IF last.malChar.via = "search" THEN q.data ELSE <<>>
        IN \A k \in 1..Len(listed) :
               ~Outranks(q.characterName, q.animeName, listed[k], last.malChar.mal_id)

\* a roster member matches the searched name
RosterMatches(q) ==
    q.animeFound /\ \E k \in 1..Len(q.characters) : last.tier[q.characterName][q.characters[k]] >= 1

GlobalSearched(requests) == \E k \in 1..Len(requests) : requests[k] = "search"

----------------------------------------------------------------------------
(* Claims about the comparison of names *)

Matched == last.op = "nameMatch"

\* the tokens of the normalized searched name
QueryTokens == Split(last.searchNorm, "")

\* C26: the tier is EXACT (2) exactly when the normalized names are equal,
\* PARTIAL (1) exactly when they are not, the searched name has at least two
\* tokens and the normalized candidate holds every one of them, else NONE
\* (0); a searched name of one token matches exactly or not at all, and
\* "Suguru Geto" against "Geto, Suguru" is EXACT.
C26_NameTier ==
    Matched =>
        LET every == \A k \in 1..Len(QueryTokens) : includes(last.charNorm, QueryTokens[k])
        IN /\ last.tier = 2 <=> last.charNorm = last.searchNorm
           /\ last.tier = 1 <=> /\ last.charNorm # last.searchNorm
                                /\ Len(QueryTokens) >= 2
                                /\ every
           /\ last.tier \in {0, 1, 2}
           /\ Len(QueryTokens) = 1 => last.tier \in {0, 2}
           /\ (last.characterName = "Suguru Geto" /\ last.malName = "Geto, Suguru")
              => last.tier = 2

\* one token that the candidate holds without being equal to it: no match
C26_Witness ==
    /\ Matched
    /\ last.characterName = "Shukuro" /\ last.malName = "Tsukishima, Shuukurou"
    /\ last.tier = 0

\* C27: a catalog name "F, G" is turned into "G F" before it is normalized,
\* so that it is equal to the normalized searched name "G F"; "Tsukishima,
\* Shuukurou" normalizes to "shukurou tsukishima", which holds every token of
\* the normalized "Shukuro Tsukishima" and is a partial match of it.
C27_FamilyFirstMatches ==
    Matched =>
        /\ \A f \in NameParts : \A g \in NameParts :
              (last.malName = f \o ", " \o g /\ last.characterName = g \o " " \o f)
              => (last.charNorm = last.searchNorm /\ last.tier = 2)
        /\ (last.malName = "Tsukishima, Shuukurou" /\ last.characterName = "Shukuro Tsukishima")
           => /\ last.charNorm = "shukurou tsukishima"
              /\ last.searchNorm = "shukuro tsukishima"
              /\ last.tier = 1

\* C27 as stated: the two spellings normalize to the same string
C27_SameNormalForm ==
    (Matched /\ last.malName = "Tsukishima, Shuukurou"
             /\ last.characterName = "Shukuro Tsukishima")
    => last.charNorm = last.searchNorm

C27_Witness ==
    /\ Matched
    /\ last.malName = "Tsukishima, Shuukurou" /\ last.characterName = "Shukuro Tsukishima"
    /\ last.tier = 1

----------------------------------------------------------------------------
(* Claims about the requests to the catalog *)

\* C28: when the catalog answers every request with 429, searchCharacter
\* ends after a bounded number of retried requests and returns null, and the
\* post is prepared from the raw name and the guessed series without about
\* text and genres.
C28_RateLimitEnds ==
    (last.op = "search" /\ last.limited)
    ~> (/\ last.op = "search" /\ last.pc = "done"
        /\ ~last.malChar.found
        /\ PreparedCharacter([name |-> last.characterName, series |-> last.animeName],
                             last.malChar)
           = [name |-> last.characterName, series |-> last.animeName,
              about |-> NoText, genres |-> <<>>])

----------------------------------------------------------------------------
(* Claims about the characters of the day and their slots *)

Prepared == last.op = "prepareDay"

\* the favorites the day page shows for the character of a post
PageFavorites(acdbId) ==
    (CHOOSE c \in {last.characters[k] : k \in 1..Len(last.characters)} :
        c.id = acdbId).favorites

\* the largest number of favorites among the characters of the day
MostFavorites ==
    CHOOSE m \in {last.characters[k].favorites : k \in 1..Len(last.characters)} :
        \A k \in 1..Len(last.characters) : last.characters[k].favorites <= m

\* C29: the characters are processed in non-increasing order of the favorites
\* of the day page and the slots are assigned in that order: slot 0 holds the
\* most favorited character of the day, and for slots i < j the character of
\* slot i has at least as many favorites as the character of slot j.
C29_SlotsByFavorites ==
    Prepared =>
        /\ \A i, j \in 1..Len(last.state.posts) :
              i < j => PageFavorites(last.state.posts[i].acdbId)
                          >= PageFavorites(last.state.posts[j].acdbId)
        /\ Len(last.state.posts) > 0 =>
              PageFavorites(last.state.posts[1].acdbId) = MostFavorites

\* C30: in the state file the index of a post is its position, the
\* scheduledTime of a post is the entry of POST_TIMES at its index, and every
\* prepared post has a job.
C30_EverySlotTimed ==
    Prepared =>
        \A k \in 1..Len(last.state.posts) :
            /\ last.state.posts[k].index = k - 1
            /\ k <= Len(POST_TIMES)
            /\ last.state.posts[k].scheduledTime
                  = PadStart2(POST_TIMES[k].hour) \o ":" \o PadStart2(POST_TIMES[k].minute)
            /\ \E job \in last.jobs : job.slot = k - 1

----------------------------------------------------------------------------
(* Claims about the image file of a publish attempt *)

\* C31: when the publish attempt of a post completes, with a success or
\* with a failure, its image file is no longer in TEMP_DIR.
C31_ImageDeletedAfterAttempt ==
    [][\A a \in AttemptIds :
          (/\ attempts[a].pc # "idle"
           /\ attempts'[a].pc = "idle"
           /\ ~(botMode # "down" /\ botMode' = "down"))
          => attempts[a].imagePath \notin files']_vars

----------------------------------------------------------------------------
(* Claims about the endpoint of the external cron *)

Requested == last.op = "request"

\* the request may start a child: GET /run with the configured secret
Authorized ==
    /\ last.req.method = "GET" /\ last.req.pathname = "/run"
    /\ Truthy(last.CRON_SECRET) /\ last.req.token = last.CRON_SECRET

\* the text is a decimal numeral from 0 to 6
IsIndexNumeral(s) == s # NoText /\ Len(s) = 1 /\ Has("0123456", s)

----------------------------------------------------------------------------
(* Claims about the stores of a day's state *)

\* C33: a state saved through a store and loaded back is the same state, for
\* the JSON file and for the table with one row per post: every post keeps
\* every one of its fields.
C33_StoreRoundTrip ==
    last.op = "saveAndLoad" =>
        /\ last.loaded.exists
        /\ Len(last.loaded.posts) = Len(last.doc.posts)
        /\ \A k \in 1..Len(last.doc.posts) : \A f \in PostFields :
              Field(last.loaded.posts[k], f) = Field(last.doc.posts[k], f)

----------------------------------------------------------------------------
(* Claims about writes of the state file in flight at the same time *)

\* C34: after markPostAsSent of a slot has completed, the slot stays
\* 'posted' in the state file, whatever other write of the state (a mark of
\* another slot, the save of a merge) was in flight at the same time.
C34_NoLostUpdate ==
    last.op = "writes" =>
        \A slot \in last.sent : store.posts[slot + 1].status = "posted"

----------------------------------------------------------------------------
(* Claims about the index of a scheduled publish attempt *)

\* C35: every publish attempt started by a job of schedulePosts passes the
\* index under which its post is stored in today's state, also when a later
\* preparation has assigned todaysPosts again; none runs with index -1.
C35_JobPassesItsIndex ==
    \A a \in AttemptIds :
        (attempts[a].pc # "idle" /\ attempts[a].via = "job")
        => /\ attempts[a].index = attempts[a].slot
           /\ attempts[a].index >= 0
           /\ attempts[a].index < Len(store.posts)

\* a step in which markPostAsSent of attempt a returns and the attempt
\* returns its success
SuccessMarked(a) ==
    /\ attempts[a].pc = "markPostAsSent"
    /\ attempts'[a].pc = "idle"
    /\ botMode' = botMode

\* C36: once an attempt that passes the index of its slot has returned
\* success without being skipped, the stored post of that slot is 'posted'
\* with the tweet id and url the service returned, so the next
\* isPostAlreadySent of the slot is true -- also when today's state cannot
\* be loaded at the moment of marking.
C36_SuccessIsRecorded ==
    [][ \A a \in AttemptIds :
           (SuccessMarked(a) /\ attempts[a].index = attempts[a].slot)
           => /\ isPostAlreadySent(store', attempts[a].index)
              /\ store'.posts[attempts[a].index + 1].tweetId = attempts[a].tweetId
              /\ store'.posts[attempts[a].index + 1].tweetUrl
                    = TweetUrl(attempts[a].tweetId) ]_vars

----------------------------------------------------------------------------
(* Claims about the dates of the jobs *)

\* C37: schedulePosts registers no job for a slot whose time has already
\* passed on the day of the call, and no publish attempt for a post prepared
\* for one date is started on a later day.
C37_NoJobForPassedSlot ==
    last.op = "schedulePosts" =>
        /\ \A j \in last.jobs : j.scheduledTime.day = last.date
        /\ \A s \in last.started : s.day = last.date

----------------------------------------------------------------------------
(* Claims about main() *)

\* a start with --now or TRIGGER_POST_INDEX in production without
\* ALLOW_MANUAL_POSTS=true
BlockedStart ==
    /\ last.op = "main"
    /\ last.argument \in {"--now", "-n"} \/ Truthy(last.TRIGGER_POST_INDEX)
    /\ Truthy(last.RAILWAY_ENVIRONMENT)
    /\ last.ALLOW_MANUAL_POSTS # "true"

\* C38: a start with --now or TRIGGER_POST_INDEX in production without
\* ALLOW_MANUAL_POSTS=true publishes nothing by hand, and the process goes
\* on as the scheduler: the daily preparation is registered and, once
\* PREP_TIME has come, the posts of the day are prepared.
C38_BlockedStartSchedules ==
    BlockedStart =>
        /\ last.result.manual = "none"
        /\ last.result.exit = "none"
        /\ last.result.dailyPrep
        /\ last.prepAgain => last.result.prepared

----------------------------------------------------------------------------
(* Claims about normalizeName on any value *)

\* what the result of normalizeName is free of, but for the comma
CanonicalText(t) ==
    /\ \A i \in 1..Len(t) : ~Has(UpperCase, CharAt(t, i)) /\ CharAt(t, i) \notin {"^", "%"}
    /\ t # "" => CharAt(t, 1) # " " /\ CharAt(t, Len(t)) # " "
    /\ \A i \in 1..(Len(t) - 1) : CharAt(t, i) # CharAt(t, i + 1)

\* C39: normalizeName applied to its own result gives that result; an empty
\* text or a value that is no string gives ""; the result has no upper-case
\* letter, no combining mark, no comma, no space at either end and no two
\* equal characters in a row.
C39_NormalizeIsCanonical ==
    last.op = "normalizeName" =>
        /\ last.again = last.result
        /\ (last.value.type # "string" \/ last.value.text = "") => last.result = ""
        /\ CanonicalText(last.result)
        /\ ~Has(last.result, ",")

====
